---- MODULE Spec2Model ----
(***************************************************************************)
(* A model of becmodel (bcgov/becmodel): the input tables and their        *)
(* validation (util.validate_data), the label/code lookups built by        *)
(* BECModel.load, the high elevation merge rules                           *)
(* (BECModel.high_elevation_merges), the initial classifier                *)
(* (BECModel.model) and the filters of BECModel.postfilter.                *)
(***************************************************************************)
EXTENDS Integers, Sequences, FiniteSets, TLC

VARIABLES
    pc,               \* position of the run
    err,              \* the exception that ended the run, or "none"
    elevation,        \* data["elevation"]: the rows of the elevation table
    rulepolys,        \* data["rulepolys"].polygon_number, in file order
    total_bounds,     \* data["rulepolys"].geometry.total_bounds, in decimetres
    becvalue_lookup,  \* self.becvalue_lookup: beclabel -> becvalue
    beclabel_lookup,  \* self.beclabel_lookup: becvalue -> beclabel, 0 -> None
    config,           \* self.config
    shape,            \* self.shape: <<rows, columns>> of the DEM
    dem,              \* data["dem"]
    slope_tif,        \* src/slope.tif, percent, NoData where undefined
    aspect_tif,       \* src/aspect.tif, tenths of a degree, NoData where flat
    rules,            \* the rasterized rule polygons, 0 outside
    slope,            \* data["slope"]
    aspect,           \* data["aspect"]
    ruleimg,          \* data["ruleimg"]
    bounds,           \* data["bounds"], in decimetres
    becinit,          \* data["becinit"]
    pos,              \* model(): the loop counters of the latest iteration
    prev,             \* model(): becinit as it was before the latest iteration
    hash_order,       \* the order in which this process iterates the set of type names
    becinit_grouped,  \* data["becinit_grouped"]
    majority,         \* data["majority"]
    postmajority,     \* data["postmajority"]
    noise,            \* data["noise"]
    noise_fill,       \* data["noise_fill"]
    highelev,         \* data["highelev"]
    tier,             \* postfilter(): the high elevation types processed so far
    prev_highelev,    \* postfilter(): highelev before the latest type was processed
    wksp,             \* the rasters in the src folder of config["wksp"], by file name
    requests,         \* the downloads asked for so far, in order
    outside_bc,       \* load(): the bounds reach beyond British Columbia
    derived_from      \* the DEM that data["dem"], ["slope"], ["aspect"] come from

tableVars == <<elevation, rulepolys, total_bounds>>

inputVars == <<config, shape, dem, slope_tif, aspect_tif, rules>>

lookupVars == <<becvalue_lookup, beclabel_lookup>>

cacheVars == <<wksp, requests, outside_bc, derived_from>>

loadedVars == <<slope, aspect, ruleimg, bounds>>

modelVars == <<becinit, pos, prev>>

filterVars ==
    <<hash_order, becinit_grouped, majority, postmajority, noise, noise_fill, highelev,
      tier, prev_highelev>>

vars ==
    <<pc, err, tableVars, inputVars, lookupVars, cacheVars, loadedVars, modelVars,
      filterVars>>

(***************************************************************************)
(* Generic helpers                                                         *)
(***************************************************************************)
Min(a, b) == IF a <= b THEN a ELSE b

Max(a, b) == IF a >= b THEN a ELSE b

Range(s) == {s[i] : i \in DOMAIN s}

\* The elements of s that satisfy Test, in order (a boolean-indexed Series).
RECURSIVE SelectRows(_, _, _)
SelectRows(s, Test(_), i) ==
    IF i > Len(s) THEN << >>
    ELSE IF Test(s[i]) THEN <<s[i]>> \o SelectRows(s, Test, i + 1)
    ELSE SelectRows(s, Test, i + 1)

\* python's sorted() on a list of integers (insertion sort).
RECURSIVE Insert(_, _)
Insert(x, s) ==
    IF s = << >> THEN <<x>>
    ELSE IF x <= Head(s) THEN <<x>> \o s
    ELSE <<Head(s)>> \o Insert(x, Tail(s))

RECURSIVE sorted(_)
sorted(s) == IF s = << >> THEN << >> ELSE Insert(Head(s), sorted(Tail(s)))

(***************************************************************************)
(* Zone labels.  A beclabel is a string; Chars gives its characters, on    *)
(* which the source slices (.str[:4], .str[6:7], .str[:6], .str.pad(9)).   *)
(***************************************************************************)
BecLabels ==
    {"IMA un", "ESSFdcp", "ESSFdcw", "ESSFdc 1", "ESSFwcw", "MS  xk 1", "ESSFdc 2",
     "IMA unp"}

Chars(l) ==
    CASE l = "IMA un"   -> <<"I", "M", "A", " ", "u", "n">>
      [] l = "ESSFdcp"  -> <<"E", "S", "S", "F", "d", "c", "p">>
      [] l = "ESSFdcw"  -> <<"E", "S", "S", "F", "d", "c", "w">>
      [] l = "ESSFdc 1" -> <<"E", "S", "S", "F", "d", "c", " ", "1">>
      [] l = "ESSFwcw"  -> <<"E", "S", "S", "F", "w", "c", "w">>
      [] l = "MS  xk 1" -> <<"M", "S", " ", " ", "x", "k", " ", "1">>
      [] l = "ESSFdc 2" -> <<"E", "S", "S", "F", "d", "c", " ", "2">>
      [] l = "IMA unp"  -> <<"I", "M", "A", " ", "u", "n", "p">>

\* s[a:b] of python, on a sequence of characters (a, b >= 0).
Slice(s, a, b) == SubSeq(s, a + 1, Min(b, Len(s)))

\* str.strip(): leading and trailing blanks removed.
RECURSIVE LStrip(_)
LStrip(s) == IF s # << >> /\ Head(s) = " " THEN LStrip(Tail(s)) ELSE s

RECURSIVE RStrip(_)
RStrip(s) ==
    IF s # << >> /\ s[Len(s)] = " " THEN RStrip(SubSeq(s, 1, Len(s) - 1)) ELSE s

Strip(s) == RStrip(LStrip(s))

\* str.pad(9, side="right"): blanks appended up to the width.
RECURSIVE PadRight(_, _)
PadRight(s, width) == IF Len(s) >= width THEN s ELSE PadRight(s \o <<" ">>, width)

\* config["high_elevation_removal_threshold_alpine" / "_parkland" / "_woodland"]
high_elevation_removal_threshold_alpine ==
    {<<"A", "T">>, <<"B", "A", "F", "A">>, <<"C", "M", "A">>, <<"I", "M", "A">>}

high_elevation_removal_threshold_parkland == {<<"p">>, <<"s">>}

high_elevation_removal_threshold_woodland == {<<"w">>}

\* The becvalue the catalogue (becmaster) gives a label: the becvalue column
\* of the elevation table.  Distinct per label and never 0 (spec, section 3).
becmaster_becvalue(l) ==
    CASE l = "IMA un"   -> 1
      [] l = "ESSFdcp"  -> 2
      [] l = "ESSFdcw"  -> 3
      [] l = "ESSFdc 1" -> 4
      [] l = "ESSFwcw"  -> 5
      [] l = "MS  xk 1" -> 6
      [] l = "ESSFdc 2" -> 7
      [] l = "IMA unp"  -> 8

(***************************************************************************)
(* util.validate_data                                                      *)
(***************************************************************************)
Positions == {"cool", "neutral", "warm"}

low(row, temp) ==
    CASE temp = "cool" -> row.cool_low
      [] temp = "neutral" -> row.neutral_low
      [] temp = "warm" -> row.warm_low

high(row, temp) ==
    CASE temp = "cool" -> row.cool_high
      [] temp = "neutral" -> row.neutral_high
      [] temp = "warm" -> row.warm_high

\* The rows of one polygon, in table order.
RowsOf(elev, poly) ==
    LET OfPoly(row) == row.polygon_number = poly IN SelectRows(elev, OfPoly, 1)

\* elev_values: the polygon's lows followed by its highs, sorted, with the
\* first and the last value stripped off ([1:-1]).
elev_values(elev, poly, temp) ==
    LET rows == RowsOf(elev, poly)
        lows == [i \in 1..Len(rows) |-> low(rows[i], temp)]
        highs == [i \in 1..Len(rows) |-> high(rows[i], temp)]
        all == sorted(lows \o highs)
    IN  SubSeq(all, 2, Len(all) - 1)

\* The two tests on one polygon and position; TRUE when validate_data raises.
BandsRejected(elev, poly, temp) ==
    LET v == elev_values(elev, poly, temp)
    IN  \/ Len(v) % 2 # 0
        \/ 2 * Cardinality(Range(v)) # Len(v)

\* The tests on the elevation bands alone, the polygon numbers not compared.
validate_data_raises_on_bands(elev, polys) ==
    \E poly \in {elev[i].polygon_number : i \in DOMAIN elev} : \E temp \in Positions :
        BandsRejected(elev, poly, temp)

\* TRUE when validate_data(data) raises DataValueError.
validate_data_raises(elev, polys) ==
    LET rulepolynums == Range(polys)
        elevpolynums == {elev[i].polygon_number : i \in DOMAIN elev}
    IN  \/ rulepolynums # elevpolynums
        \/ \E poly \in elevpolynums : \E temp \in Positions :
              BandsRejected(elev, poly, temp)

(***************************************************************************)
(* BECModel.load: the label/code lookups                                   *)
(***************************************************************************)
None == "None"

\* uniques: the (beclabel, becvalue) pairs of the table, duplicates dropped,
\* in order of first occurrence.
RECURSIVE drop_duplicates(_, _)
drop_duplicates(elev, i) ==
    IF i > Len(elev) THEN << >>
    ELSE LET pair == <<elev[i].beclabel, elev[i].becvalue>>
             seen == {<<elev[j].beclabel, elev[j].becvalue>> : j \in 1..(i - 1)}
         IN  IF pair \in seen THEN drop_duplicates(elev, i + 1)
             ELSE <<pair>> \o drop_duplicates(elev, i + 1)

\* A dict filled from a sequence of (key, value) pairs: a later pair
\* replaces an earlier one with the same key.
DictOf(pairs) ==
    [k \in {pairs[i][1] : i \in DOMAIN pairs} |->
        LET last == CHOOSE i \in DOMAIN pairs :
                /\ pairs[i][1] = k
                /\ \A j \in DOMAIN pairs : pairs[j][1] = k => j <= i
        IN  pairs[last][2]]

make_becvalue_lookup(elev) == DictOf(drop_duplicates(elev, 1))

\* Reversed[v] is the label of the last item of the lookup with value v.
\* The items of a dict come in insertion order: the order of first
\* occurrence of each label in uniques.
ReversedLookup(elev) ==
    LET uniques == drop_duplicates(elev, 1)
        lookup == DictOf(uniques)
        FirstOf(i) == \A j \in 1..(i - 1) : uniques[j][1] # uniques[i][1]
        keys == SelectRows([i \in DOMAIN uniques |-> <<uniques[i][1], i>>],
                           LAMBDA p : FirstOf(p[2]), 1)
        items == [i \in DOMAIN keys |-> <<lookup[keys[i][1]], keys[i][1]>>]
    IN  DictOf(items)

\* The reverse lookup without the entry for 0.
make_beclabel_lookup_without_zero(elev) == ReversedLookup(elev)

make_beclabel_lookup(elev) ==
    LET reversed == ReversedLookup(elev)
    IN  [v \in DOMAIN reversed \cup {0} |-> IF v = 0 THEN None ELSE reversed[v]]

(***************************************************************************)
(* BECModel.high_elevation_merges                                          *)
(***************************************************************************)
Labels(rows) == [i \in DOMAIN rows |-> rows[i].beclabel]

\* beclabel.str[:4].str.strip().isin(alpine list), within one polygon
alpine_of(elev, rule_poly) ==
    LET Test(row) ==
            /\ row.polygon_number = rule_poly
            /\ Strip(Slice(Chars(row.beclabel), 0, 4))
                   \in high_elevation_removal_threshold_alpine
    IN  Labels(SelectRows(elev, Test, 1))

\* beclabel.str[6:7].str.strip().isin(parkland list), within one polygon
parkland_of(elev, rule_poly) ==
    LET Test(row) ==
            /\ row.polygon_number = rule_poly
            /\ Strip(Slice(Chars(row.beclabel), 6, 7))
                   \in high_elevation_removal_threshold_parkland
    IN  Labels(SelectRows(elev, Test, 1))

\* beclabel.str[6:7].str.strip().isin(woodland list), within one polygon
woodland_of(elev, rule_poly) ==
    LET Test(row) ==
            /\ row.polygon_number = rule_poly
            /\ Strip(Slice(Chars(row.beclabel), 6, 7))
                   \in high_elevation_removal_threshold_woodland
    IN  Labels(SelectRows(elev, Test, 1))

\* The labels of the polygon that share the first six characters of
\* source_label[0] and whose seventh character, once padded, is blank.
\* Only evaluated when parkland or woodland is present.
high_of(elev, rule_poly) ==
    LET woodland == woodland_of(elev, rule_poly)
        parkland == parkland_of(elev, rule_poly)
        source_label == IF woodland # << >> THEN woodland ELSE parkland
        Test(row) ==
            /\ row.polygon_number = rule_poly
            /\ Slice(Chars(row.beclabel), 0, 6) = Slice(Chars(source_label[1]), 0, 6)
            /\ PadRight(Chars(row.beclabel), 9)[7] = " "
    IN  Labels(SelectRows(elev, Test, 1))

Rule(rule_poly, type, source, target) ==
    [rule |-> rule_poly, type |-> type, becvalue |-> source, becvalue_target |-> target]

\* TRUE when the loop body for rule_poly indexes an empty list:
\* parkland[0] at the alpine rule, high[0] at the parkland rule of a polygon
\* without woodland and at the woodland rule.
PolyRaises(elev, rule_poly) ==
    LET alpine == alpine_of(elev, rule_poly)
        parkland == parkland_of(elev, rule_poly)
        woodland == woodland_of(elev, rule_poly)
    IN  \/ alpine # << >> /\ parkland = << >>
        \/ /\ parkland # << >> /\ woodland = << >>
           /\ high_of(elev, rule_poly) = << >>
        \/ /\ woodland # << >>
           /\ high_of(elev, rule_poly) = << >>

\* The rules the loop body appends for rule_poly, in order.
PolyMerges(elev, lookup, rule_poly) ==
    LET alpine == alpine_of(elev, rule_poly)
        parkland == parkland_of(elev, rule_poly)
        woodland == woodland_of(elev, rule_poly)
        high_labels == high_of(elev, rule_poly)
        alpine_rule ==
            IF alpine # << >>
            THEN <<Rule(rule_poly, "alpine", lookup[alpine[1]], lookup[parkland[1]])>>
            ELSE << >>
        parkland_rule ==
            IF parkland # << >> /\ woodland # << >>
            THEN <<Rule(rule_poly, "parkland", lookup[parkland[1]], lookup[woodland[1]])>>
            ELSE IF parkland # << >> /\ woodland = << >>
            THEN <<Rule(rule_poly, "parkland", lookup[parkland[1]], lookup[high_labels[1]])>>
            ELSE << >>
        woodland_rule ==
            IF woodland # << >>
            THEN <<Rule(rule_poly, "woodland", lookup[woodland[1]], lookup[high_labels[1]])>>
            ELSE << >>
    IN  alpine_rule \o parkland_rule \o woodland_rule

RECURSIVE MergesFrom(_, _, _, _)
MergesFrom(elev, lookup, polys, i) ==
    IF i > Len(polys) THEN << >>
    ELSE PolyMerges(elev, lookup, polys[i]) \o MergesFrom(elev, lookup, polys, i + 1)

\* TRUE when evaluating the property raises IndexError.
high_elevation_merges_raises(elev, polys) ==
    \E i \in DOMAIN polys : PolyRaises(elev, polys[i])

\* The value of the property (when it does not raise).
high_elevation_merges(elev, lookup, polys) == MergesFrom(elev, lookup, polys, 1)

(***************************************************************************)
(* Grids.  A grid is a function on the cells <<row, column>> of the shape. *)
(***************************************************************************)
Cells(shp) == (1..shp[1]) \X (1..shp[2])

\* ceil(a / b) for a >= 0, b > 0
Ceil(a, b) == (a + b - 1) \div b

\* The quotient num / den rounded up, den > 0.
RoundUp(num, den) == -((-num) \div den)

\* int(round(num / den)), den > 0: python rounds a tie to the even integer
RoundHalfEven(num, den) ==
    LET q == num \div den
        r == num - q * den
    IN  IF 2 * r < den THEN q
        ELSE IF 2 * r > den THEN q + 1
        ELSE IF q % 2 = 0 THEN q ELSE q + 1

\* Squared euclidean distance between two cells, in cell units.
Dist2(a, b) == (a[1] - b[1]) * (a[1] - b[1]) + (a[2] - b[2]) * (a[2] - b[2])

\* The cells of sources nearest to cell c.
Nearest(c, sources) ==
    {n \in sources : \A m \in sources : Dist2(c, n) <= Dist2(c, m)}

\* ndimage.distance_transform_edt(a, return_indices=True): for every cell
\* the index of a nearest cell of sources; which one of several equally
\* near cells is returned is left to the library.  No source at all: the
\* index read holds the same value as the cell itself (all are background).
RECURSIVE AllocationsOver(_, _)
AllocationsOver(cells, sources) ==
    IF cells = {} THEN {<< >>}
    ELSE LET c == CHOOSE x \in cells : TRUE
             rest == AllocationsOver(cells \ {c}, sources)
             picks == IF sources = {} THEN {c} ELSE Nearest(c, sources)
         IN  {f @@ (c :> n) : f \in rest, n \in picks}

distance_transform_edt(shp, sources) == AllocationsOver(Cells(shp), sources)

(***************************************************************************)
(* BECModel.validate_config: the aspect temperature zones                  *)
(***************************************************************************)
\* validate_config without the test for a multiple of 5.
validate_config_raises_off_range(cfg) ==
    cfg.cell_size_metres < 25 \/ cfg.cell_size_metres > 100

\* The DEM files that exist (os.path.exists(config["dem"])).
DemFiles == {"dem_ok.tif", "dem_b.tif"}

\* TRUE when validate_config raises ConfigValueError: for the cell size, or
\* for a DEM file that does not exist; the other files the configuration
\* names are there.
validate_config_raises(cfg) ==
    \/ cfg.cell_size_metres < 25
    \/ cfg.cell_size_metres > 100
    \/ cfg.cell_size_metres % 5 # 0
    \/ (cfg.dem # "" /\ cfg.dem \notin DemFiles)

\* self.config.update(update_dict)
update_config(cfg, update_dict) ==
    [key \in DOMAIN cfg |->
        IF key \in DOMAIN update_dict THEN update_dict[key] ELSE cfg[key]]

\* [cool, neutral_east, warm, neutral_west, cool]
aspect_zone_midpoints(cfg) ==
    << cfg.aspect_midpoint_cool_degrees,
       cfg.aspect_midpoint_neutral_east_degrees,
       cfg.aspect_midpoint_warm_degrees,
       cfg.aspect_midpoint_neutral_west_degrees,
       cfg.aspect_midpoint_cool_degrees >>

\* np.mod(np.diff(midpoints), 360)
aspect_zone_differences(cfg) ==
    LET m == aspect_zone_midpoints(cfg)
    IN  [i \in 1..4 |-> (m[i + 1] - m[i]) % 360]

(***************************************************************************)
(* BECModel.load: slope, aspect and the rule polygon raster                *)
(***************************************************************************)
\* The nodata value gdal writes to slope.tif and aspect.tif.
NoData == -9999

\* What astype(np.uint16) makes of the nodata value: the conversion of a
\* negative float to an unsigned integer is not defined; it wraps modulo
\* 2^16 on some builds and saturates to 0 on others.
NoDataAsUint16 == {NoData % 65536, 0}

\* src.read(1).astype(np.uint16) of one aspect value (tenths of a degree):
\* the fraction is cut off.
AsUint16(a, nd) == IF a = NoData THEN nd ELSE (a \div 10) % 65536

\* data["aspect"] as read and cast, the slopes below the threshold left alone
load_aspect_as_read(cfg, shp, slp, asp, nd) ==
    [c \in Cells(shp) |-> AsUint16(asp[c], nd)]

\* data["aspect"], with the slopes below the threshold set to neutral east
load_aspect(cfg, shp, slp, asp, nd) ==
    [c \in Cells(shp) |->
        IF slp[c] < cfg.aspect_neutral_slope_threshold_percent
        THEN cfg.aspect_midpoint_neutral_east_degrees
        ELSE AsUint16(asp[c], nd)]

expand_bounds_cells(cfg) == Ceil(cfg.expand_bounds_metres, cfg.cell_size_metres)

\* data["ruleimg"]: np.where(b < expand_bounds_cells, rules[c[0], c[1]], 0),
\* b the distance of every cell to a nearest cell of a rule polygon and c
\* the index of that cell
load_ruleimg(cfg, shp, rls, alloc) ==
    [c \in Cells(shp) |->
        IF Dist2(c, alloc[c]) < expand_bounds_cells(cfg) * expand_bounds_cells(cfg)
        THEN rls[alloc[c]]
        ELSE 0]

(***************************************************************************)
(* BECModel.model: the masked assignments, in the order they are made      *)
(***************************************************************************)
\* [(cool, neutral), (neutral, warm), (warm, neutral), (neutral, cool)]
transitions(row) ==
    LET cool == <<row.cool_low, row.cool_high>>
        neutral == <<row.neutral_low, row.neutral_high>>
        warm == <<row.warm_low, row.warm_high>>
    IN  << <<cool, neutral>>, <<neutral, warm>>, <<warm, neutral>>, <<neutral, cool>> >>

\* range(0, aspect_zone_differences[i], 10)
steps(cfg, i) ==
    [j \in 1..Ceil(aspect_zone_differences(cfg)[i], 10) |-> 10 * (j - 1)]

aspect_min(cfg, i, step) == ((aspect_zone_midpoints(cfg)[i] + step) - 5) % 360

aspect_max(cfg, i, step) == ((aspect_zone_midpoints(cfg)[i] + step) + 5) % 360

\* transition[0][0] alone: the low bound without the interpolated part.
elev_min_at_start(cfg, row, i, step) == transitions(row)[i][1][1]

\* transition[0][0] + int(round(step * low_elev_step_size))
elev_min(cfg, row, i, step) ==
    LET t == transitions(row)[i]
    IN  t[1][1] + RoundHalfEven(step * (t[2][1] - t[1][1]), aspect_zone_differences(cfg)[i])

\* transition[0][1] + int(round(step * high_elev_step_size))
elev_max(cfg, row, i, step) ==
    LET t == transitions(row)[i]
    IN  t[1][2] + RoundHalfEven(step * (t[2][2] - t[1][2]), aspect_zone_differences(cfg)[i])

\* One masked assignment of the code of row: the cells of its rule polygon
\* with amin <= aspect, aspect < amax when bounded, and an elevation in the
\* band of the step.
Write(row, i, step, amin, bounded, amax) ==
    [ row |-> row, transition |-> i, step |-> step,
      amin |-> amin, bounded |-> bounded, amax |-> amax ]

\* One assignment per step whatever the limits: a class that spans 0 is not
\* split.
step_writes_unsplit(row, i, step, cfg) ==
    << Write(row, i, step, aspect_min(cfg, i, step), TRUE, aspect_max(cfg, i, step)) >>

\* The assignments of one step: a class that spans 0 is assigned in two
\* parts, first aspect >= aspect_min, then 0 <= aspect < aspect_max.
step_writes(row, i, step, cfg) ==
    LET amin == aspect_min(cfg, i, step)
        amax == aspect_max(cfg, i, step)
    IN  IF amin > amax
        THEN << Write(row, i, step, amin, FALSE, amax),
                Write(row, i, step, 0, TRUE, amax) >>
        ELSE << Write(row, i, step, amin, TRUE, amax) >>

\* The loop counters of model(): the row, the transition (1..4) and the
\* step of an iteration of the innermost loop.  NoIteration before the first
\* and after the last.  Every span between two midpoints is positive.
NoIteration == [row |-> 0, transition |-> 0, step |-> 0]

first_iteration(elev) ==
    IF elev = << >> THEN NoIteration ELSE [row |-> 1, transition |-> 1, step |-> 0]

\* The iteration that follows it: the next step of the range, else the next
\* transition, else the next row.
next_iteration(it, elev, cfg) ==
    IF it.step + 10 < aspect_zone_differences(cfg)[it.transition]
    THEN [it EXCEPT !.step = it.step + 10]
    ELSE IF it.transition < 4
    THEN [it EXCEPT !.transition = it.transition + 1, !.step = 0]
    ELSE IF it.row < Len(elev)
    THEN [row |-> it.row + 1, transition |-> 1, step |-> 0]
    ELSE NoIteration

\* The mask without its test of the rule polygon.
InMask_any_polygon(w, rule, asp, elevn, cfg) ==
    /\ asp >= w.amin
    /\ w.bounded => asp < w.amax
    /\ elevn >= elev_min(cfg, w.row, w.transition, w.step)
    /\ elevn < elev_max(cfg, w.row, w.transition, w.step)

\* The boolean mask of one assignment at one cell.
InMask(w, rule, asp, elevn, cfg) ==
    /\ rule = w.row.polygon_number
    /\ asp >= w.amin
    /\ w.bounded => asp < w.amax
    /\ elevn >= elev_min(cfg, w.row, w.transition, w.step)
    /\ elevn < elev_max(cfg, w.row, w.transition, w.step)

\* The assignment to the cells of the mask that hold no code yet.
assign_unset(grid, w, cfg, lookup, shp, rimg, asp, elevn) ==
    [c \in Cells(shp) |->
        IF grid[c] = 0 /\ InMask(w, rimg[c], asp[c], elevn[c], cfg)
        THEN lookup[w.row.beclabel] ELSE grid[c]]

\* data["becinit"][mask] = self.becvalue_lookup[row["beclabel"]]
assign(grid, w, cfg, lookup, shp, rimg, asp, elevn) ==
    [c \in Cells(shp) |->
        IF InMask(w, rimg[c], asp[c], elevn[c], cfg)
        THEN lookup[w.row.beclabel] ELSE grid[c]]

\* The body of the innermost loop for one iteration.
iterate(grid, it, elev, cfg, lookup, shp, rimg, asp, elevn) ==
    LET ws == step_writes(elev[it.row], it.transition, it.step, cfg)
        first == assign(grid, ws[1], cfg, lookup, shp, rimg, asp, elevn)
    IN  IF Len(ws) = 2 THEN assign(first, ws[2], cfg, lookup, shp, rimg, asp, elevn)
        ELSE first

zeros(shp) == [c \in Cells(shp) |-> 0]

(***************************************************************************)
(* BECModel.high_elevation_types, BECModel.high_elevation_dissolves        *)
(***************************************************************************)
\* list(set(type of every merge rule)): the types that occur, in the order
\* in which the process iterates the set.
high_elevation_types(merges, order) ==
    LET Occurs(t) == \E k \in DOMAIN merges : merges[k].type = t
    IN  SelectRows(order, Occurs, 1)

\* The keys of high_elevation_dissolves, in order: the types, then "high".
dissolve_types(merges, order) == high_elevation_types(merges, order) \o <<"high">>

\* high_elevation_dissolves[key]: the codes of the zone, as a set.
high_elevation_dissolves(merges, order, key) ==
    LET types == Range(high_elevation_types(merges, order))
    IN  IF key = "high"
        THEN { merges[k].becvalue_target : k \in
                 { j \in DOMAIN merges :
                     \/ merges[j].type = "parkland" /\ "woodland" \notin types
                     \/ merges[j].type = "woodland" } }
        ELSE { merges[k].becvalue : k \in {j \in DOMAIN merges : merges[j].type = key} }

(***************************************************************************)
(* The image operations postfilter() calls                                 *)
(***************************************************************************)
\* Two cells are neighbours: by an edge with connectivity 1, by an edge or
\* a corner with connectivity 2.
Adjacent(a, b, connectivity) ==
    LET dr == IF a[1] >= b[1] THEN a[1] - b[1] ELSE b[1] - a[1]
        dc == IF a[2] >= b[2] THEN a[2] - b[2] ELSE b[2] - a[2]
    IN  IF connectivity = 1 THEN dr + dc = 1
        ELSE dr <= 1 /\ dc <= 1 /\ dr + dc >= 1

\* The cells of S connected within S to the cells of R, found from the cells
\* reached last (front).
RECURSIVE Reach(_, _, _, _)
Reach(S, R, front, connectivity) ==
    LET more == {d \in S \ R : \E r \in front : Adjacent(r, d, connectivity)}
    IN  IF more = {} THEN R ELSE Reach(S, R \cup more, more, connectivity)

\* The connected components of a set of cells (ndimage.label).
RECURSIVE Components(_, _)
Components(S, connectivity) ==
    IF S = {} THEN {}
    ELSE LET c == CHOOSE x \in S : TRUE
             K == Reach(S, {c}, {c}, connectivity)
         IN  {K} \cup Components(S \ K, connectivity)

\* The components with min_size cells or fewer dropped.
remove_small_objects_inclusive(S, min_size, connectivity) ==
    UNION {K \in Components(S, connectivity) : Cardinality(K) > min_size}

\* morphology.remove_small_objects(ar, min_size, connectivity) on a boolean
\* image: the components with fewer than min_size cells are dropped.
remove_small_objects(S, min_size, connectivity) ==
    UNION {K \in Components(S, connectivity) : Cardinality(K) >= min_size}

\* morphology.remove_small_holes(ar, area_threshold, connectivity): the
\* small objects of the inverted image are removed, and the image inverted
\* back.
remove_small_holes(shp, S, area_threshold, connectivity) ==
    Cells(shp) \ remove_small_objects(Cells(shp) \ S, area_threshold, connectivity)

\* The cells under a size x size rectangle centred (at index size // 2) on
\* cell c, within the image.
Footprint(shp, c, size) ==
    { d \in Cells(shp) :
        /\ d[1] - c[1] \in (0 - (size \div 2))..(size - 1 - (size \div 2))
        /\ d[2] - c[2] \in (0 - (size \div 2))..(size - 1 - (size \div 2)) }

\* skimage.filters.rank.majority(image, footprint): the most frequent value
\* under the footprint, the lowest of them when several are.
rank_majority(shp, grid, size) ==
    [c \in Cells(shp) |->
        LET under == Footprint(shp, c, size)
            Count(v) == Cardinality({d \in under : grid[d] = v})
            values == {grid[d] : d \in under}
        IN  CHOOSE v \in values :
                \A w \in values : Count(w) < Count(v) \/ (Count(w) = Count(v) /\ v <= w)]

(***************************************************************************)
(* BECModel.postfilter, stage by stage                                     *)
(***************************************************************************)
\* data["becmaster"]["becvalue"].max()
max_value ==
    CHOOSE v \in {becmaster_becvalue(l) : l \in BecLabels} :
        \A l \in BecLabels : becmaster_becvalue(l) <= v

high_elevation_aggregates(key) ==
    CASE key = "alpine" -> max_value + 1
      [] key = "parkland" -> max_value + 2
      [] key = "woodland" -> max_value + 3

\* The body of the loop over the keys of high_elevation_aggregates: when the
\* type occurs, its codes are replaced by its aggregate code.
group_key(shp, grid, merges, order, key) ==
    LET codes == IF key \in Range(high_elevation_types(merges, order))
                 THEN high_elevation_dissolves(merges, order, key)
                 ELSE {}
    IN  [c \in Cells(shp) |->
            IF grid[c] \in codes THEN high_elevation_aggregates(key) ELSE grid[c]]

\* data["becinit_grouped"]: the loop over the keys alpine, parkland, woodland.
group(shp, grid, merges, order) ==
    group_key(shp,
              group_key(shp, group_key(shp, grid, merges, order, "alpine"),
                        merges, order, "parkland"),
              merges, order, "woodland")

\* ceil(majority_filter_size_slope_low_metres / cell_size_metres)
filtersize_low(cfg) ==
    Ceil(cfg.majority_filter_size_slope_low_metres, cfg.cell_size_metres)

filtersize_steep(cfg) ==
    Ceil(cfg.majority_filter_size_slope_steep_metres, cfg.cell_size_metres)

\* data["majority"]: the filter with the low size where the slope is below
\* the steep threshold, with the steep size elsewhere.
majority_filter(cfg, shp, slp, grid) ==
    LET lowf == rank_majority(shp, grid, filtersize_low(cfg))
        steepf == rank_majority(shp, grid, filtersize_steep(cfg))
    IN  [c \in Cells(shp) |->
            IF slp[c] < cfg.majority_filter_steep_slope_threshold_percent
            THEN lowf[c] ELSE steepf[c]]

\* The last merge rule of a type for a rule polygon, 0 when there is none.
LastMerge(merges, type, rule) ==
    LET at == {k \in DOMAIN merges : merges[k].type = type /\ merges[k].rule = rule}
    IN  IF at = {} THEN 0 ELSE CHOOSE k \in at : \A j \in at : j <= k

\* The aggregate codes replaced by the code of the first merge rule of
\* their type, whatever the rule polygon of the cell.
ungroup_any_polygon(shp, maj, rimg, merges, order) ==
    LET types == Range(high_elevation_types(merges, order))
        ZoneOf(c) == {t \in types : maj[c] = high_elevation_aggregates(t)}
        First(t) == CHOOSE k \in DOMAIN merges : merges[k].type = t
    IN  [c \in Cells(shp) |->
            IF ZoneOf(c) # {}
            THEN merges[First(CHOOSE z \in ZoneOf(c) : TRUE)].becvalue
            ELSE maj[c]]

\* data["postmajority"]: an aggregate code becomes the code of the merge
\* rule of its type for the cell's rule polygon.
ungroup(shp, maj, rimg, merges, order) ==
    LET types == Range(high_elevation_types(merges, order))
        ZoneOf(c) == {t \in types : maj[c] = high_elevation_aggregates(t)}
    IN  [c \in Cells(shp) |->
            IF \E t \in ZoneOf(c) : LastMerge(merges, t, rimg[c]) # 0
            THEN LET t == CHOOSE z \in ZoneOf(c) : LastMerge(merges, z, rimg[c]) # 0
                 IN  merges[LastMerge(merges, t, rimg[c])].becvalue
            ELSE maj[c]]

\* int(threshold_ha * 10000 / cell_size_metres ** 2)
noise_threshold(cfg) ==
    (cfg.noise_removal_threshold_ha * 10000) \div (cfg.cell_size_metres * cfg.cell_size_metres)

high_elevation_removal_threshold(cfg) ==
    (cfg.high_elevation_removal_threshold_ha * 10000)
        \div (cfg.cell_size_metres * cfg.cell_size_metres)

\* The keys of beclabel_lookup but 0, in the order of the dict: the codes in
\* the order in which the labels first occur in the table.
RECURSIVE FirstOccurrences(_, _)
FirstOccurrences(s, i) ==
    IF i > Len(s) THEN << >>
    ELSE IF \E j \in 1..(i - 1) : s[j] = s[i] THEN FirstOccurrences(s, i + 1)
    ELSE <<s[i]>> \o FirstOccurrences(s, i + 1)

beclabel_lookup_keys(elev) ==
    LET uniques == drop_duplicates(elev, 1)
        lookup == DictOf(uniques)
        labels == FirstOccurrences([i \in DOMAIN uniques |-> uniques[i][1]], 1)
        codes == FirstOccurrences([i \in DOMAIN labels |-> lookup[labels[i]]], 1)
        NotZero(v) == v # 0
    IN  SelectRows(codes, NotZero, 1)

\* The body of the loop of the noise filter for one code.
noise_step(cfg, shp, out, postmaj, becvalue) ==
    LET X == {c \in Cells(shp) : postmaj[c] = becvalue}
        Y == remove_small_holes(shp, X, noise_threshold(cfg), cfg.cell_connectivity)
        Z == remove_small_objects(Y, noise_threshold(cfg), cfg.cell_connectivity)
    IN  [c \in Cells(shp) |-> IF c \in Z THEN becvalue ELSE out[c]]

\* The loop written over the grid it reads instead of over zeros.
RECURSIVE noise_filter_in_place(_, _, _, _, _)
noise_filter_in_place(cfg, shp, postmaj, keys, n) ==
    IF n = 0 THEN postmaj
    ELSE noise_step(cfg, shp, noise_filter_in_place(cfg, shp, postmaj, keys, n - 1),
                    postmaj, keys[n])

\* data["noise"]: the loop over the first n codes of keys.
RECURSIVE noise_filter(_, _, _, _, _)
noise_filter(cfg, shp, postmaj, keys, n) ==
    IF n = 0 THEN zeros(shp)
    ELSE noise_step(cfg, shp, noise_filter(cfg, shp, postmaj, keys, n - 1),
                    postmaj, keys[n])

\* Every 0 takes the value of the cell allocated to it, inside the rule
\* polygons or not.
fill_holes_everywhere(shp, grid, rimg, alloc) ==
    [c \in Cells(shp) |-> IF grid[c] = 0 THEN grid[alloc[c]] ELSE grid[c]]

\* A 0 inside the rule polygons takes the greatest value of the grid.
fill_holes_greatest(shp, grid, rimg, alloc) ==
    LET top == CHOOSE v \in {grid[d] : d \in Cells(shp)} :
                   \A d \in Cells(shp) : grid[d] <= v
    IN  [c \in Cells(shp) |-> IF grid[c] = 0 /\ rimg[c] # 0 THEN top ELSE grid[c]]

\* data["noise_fill"]: a 0 inside the rule polygons takes the value of the
\* cell of noise that the distance transform allocates to it.
fill_holes(shp, grid, rimg, alloc) ==
    [c \in Cells(shp) |->
        IF grid[c] = 0 /\ rimg[c] # 0 THEN grid[alloc[c]] ELSE grid[c]]

\* The small holes of the zone to_agg get the target of the merge rule of
\* highelev_type of their rule polygon.
merge_holes(cfg, shp, grid, rimg, merges, highelev_type, to_agg) ==
    LET X == {c \in Cells(shp) : grid[c] \in to_agg}
        Z == remove_small_holes(shp, X, high_elevation_removal_threshold(cfg),
                                cfg.cell_connectivity) \ X
        Target(c) == LastMerge(merges, highelev_type, rimg[c])
    IN  [c \in Cells(shp) |->
            IF c \in Z /\ Target(c) # 0
            THEN merges[Target(c)].becvalue_target
            ELSE grid[c]]

\* The body of the loop of the high elevation filter for the type at index
\* i of dissolve_types: the holes are looked for in the zone at index i + 1.
high_elevation_step(cfg, shp, grid, rimg, merges, order, i) ==
    LET keys == dissolve_types(merges, order)
    IN  merge_holes(cfg, shp, grid, rimg, merges, keys[i],
                    high_elevation_dissolves(merges, order, keys[i + 1]))

(***************************************************************************)
(* The run: util.load_tables reads the tables and validates them,          *)
(* load() derives the lookups and the rasters, model() classifies.         *)
(***************************************************************************)
DataValueError == "DataValueError"

\* A value of data that is not there yet.
Absent == << >>

\* Nothing is derived from the tables: no lookup, no raster of load(), no
\* grid of model() or of postfilter().
NothingDerived ==
    /\ becvalue_lookup = Absent /\ beclabel_lookup = Absent
    /\ slope = Absent /\ aspect = Absent /\ ruleimg = Absent /\ bounds = Absent
    /\ becinit = Absent /\ becinit_grouped = Absent /\ majority = Absent
    /\ postmajority = Absent /\ noise = Absent /\ noise_fill = Absent
    /\ highelev = Absent

\* math.trunc(a / d): the quotient rounded towards zero
Trunc(a, d) == IF a >= 0 THEN a \div d ELSE -((-a) \div d)

\* util.align(bounds).  Coordinates are in decimetres: 100 m is 1000,
\* 12.5 m is 125 and 87.5 m is 875.
align(b) ==
    << Trunc(b[1], 1000) * 1000 - 125,
       Trunc(b[2], 1000) * 1000 - 125,
       (Trunc(b[3], 1000) + 1) * 1000 + 875,
       (Trunc(b[4], 1000) + 1) * 1000 + 875 >>

\* load(): expanded_bounds = (xmin, ymin, xmax, ymax)
expanded_bounds(cfg, b) ==
    << b[1] - 10 * cfg.expand_bounds_metres,
       b[2] - 10 * cfg.expand_bounds_metres,
       b[3] + 10 * cfg.expand_bounds_metres,
       b[4] + 10 * cfg.expand_bounds_metres >>

\* util.validate_data(data), called by load_tables
ValidateData ==
    /\ pc = "read"
    /\ IF validate_data_raises(elevation, rulepolys)
       THEN pc' = "failed" /\ err' = DataValueError
       ELSE pc' = "constructed" /\ err' = err
    /\ UNCHANGED <<tableVars, inputVars, lookupVars, cacheVars, loadedVars, modelVars,
                   filterVars>>

\* The rasters of the src folder of the workspace.  A raster is told by
\* where its values come from and by its cell size (0: that of the file as
\* it was given); slope.tif and aspect.tif are told by the DEM they were
\* derived from.
FileNames ==
    {"dem_bc25.tif", "dem_bc.tif", "dem_exbc.tif", "dem.tif", "slope.tif", "aspect.tif"}

NoFile == [origin |-> "", cell |-> 0]

EmptyWorkspace == [name \in FileNames |-> NoFile]

\* os.path.exists(os.path.join(srcpath, name))
exists(files, name) == files[name] # NoFile

\* shutil.rmtree(config["wksp"]) if overwrite, then mkdir
make_srcpath(files, overwrite) == IF overwrite THEN EmptyWorkspace ELSE files

\* load(): "get TRIM dem".  bcdata.get_dem writes dem_bc25.tif, which is
\* resampled with gdalwarp or renamed to dem_bc.tif; dem_bc.tif is renamed
\* to dem.tif when the bounds are within BC.
get_trim_dem(cfg, files, outside) ==
    IF cfg.dem # "" \/ exists(files, "dem_bc.tif") THEN files
    ELSE LET native == [origin |-> "bc", cell |-> 25]
             resampled == [origin |-> "bc", cell |-> cfg.cell_size_metres]
             warped == IF cfg.cell_size_metres # 25
                       THEN [files EXCEPT !["dem_bc25.tif"] = native,
                                          !["dem_bc.tif"] = resampled]
                       ELSE [files EXCEPT !["dem_bc25.tif"] = NoFile,
                                          !["dem_bc.tif"] = native]
         IN  IF ~outside
             THEN [warped EXCEPT !["dem.tif"] = warped["dem_bc.tif"],
                                 !["dem_bc.tif"] = NoFile]
             ELSE warped

\* load(): "get terrain-tiles".  TerrainTiles(...).save writes dem_exbc.tif;
\* the mosaic of dem_exbc.tif and dem_bc.tif is written to dem.tif.
get_terrain_tiles(cfg, files, outside) ==
    IF cfg.dem = "" /\ ~exists(files, "dem_exbc.tif") /\ outside
    THEN [files EXCEPT !["dem_exbc.tif"] = [origin |-> "tiles", cell |-> cfg.cell_size_metres],
                       !["dem.tif"] = [origin |-> "bc+tiles",
                                       cell |-> cfg.cell_size_metres]]
    ELSE files

\* The downloads load() asks for with these files in the src folder, in
\* order.
load_requests(cfg, files, outside) ==
    (IF cfg.dem = "" /\ ~exists(files, "dem_bc.tif") THEN <<"bcdata.get_dem">> ELSE << >>)
        \o (IF cfg.dem = "" /\ ~exists(files, "dem_exbc.tif") /\ outside
            THEN <<"TerrainTiles">> ELSE << >>)

\* Bound of the downloads of one object.
MaxRequests == 4

\* The raster at self.dempath: the DEM of the configuration, or dem.tif.
dempath(cfg, files) ==
    IF cfg.dem # "" THEN [origin |-> cfg.dem, cell |-> 0] ELSE files["dem.tif"]

\* gdal.DEMProcessing(name, self.dempath, ...) if the file is not there
dem_processing(cfg, files, name) ==
    IF exists(files, name) THEN files ELSE [files EXCEPT ![name] = dempath(cfg, files)]

\* The src folder after load().
load_srcpath(cfg, files, overwrite, outside) ==
    LET made == make_srcpath(files, overwrite)
        dems == get_terrain_tiles(cfg, get_trim_dem(cfg, made, outside), outside)
    IN  dem_processing(cfg, dem_processing(cfg, dems, "slope.tif"), "aspect.tif")

RasterioIOError == "RasterioIOError"

\* The body of load(overwrite), with the values of the DEM, of slope.tif and
\* of aspect.tif given.  rasterio.open raises when the DEM file is not
\* there: the lookups, the bounds and the downloads are made by then.
load(overwrite) ==
    LET made == make_srcpath(wksp, overwrite)
        files == load_srcpath(config, wksp, overwrite, outside_bc)
    IN  /\ requests' = requests \o load_requests(config, made, outside_bc)
        /\ outside_bc' = outside_bc
        /\ becvalue_lookup' = make_becvalue_lookup(elevation)
        /\ beclabel_lookup' = make_beclabel_lookup(elevation)
        /\ bounds' = align(expanded_bounds(config, total_bounds))
        /\ IF dempath(config, files) = NoFile \/ dempath(config, files).origin \notin
                                                   (DemFiles \cup {"bc", "bc+tiles"})
           THEN /\ wksp' = get_terrain_tiles(config, get_trim_dem(config, made, outside_bc),
                                             outside_bc)
                /\ pc' = "failed"
                /\ err' = RasterioIOError
                /\ UNCHANGED <<derived_from, slope, aspect, ruleimg>>
           ELSE /\ wksp' = files
                /\ derived_from' = [dem |-> dempath(config, files),
                                    slope |-> files["slope.tif"],
                                    aspect |-> files["aspect.tif"]]
                /\ slope' = slope_tif
                /\ \E nd \in NoDataAsUint16 :
                      aspect' = load_aspect(config, shape, slope_tif, aspect_tif, nd)
                /\ \E alloc \in distance_transform_edt(shape,
                                                        {c \in Cells(shape) : rules[c] # 0}) :
                      ruleimg' = load_ruleimg(config, shape, rules, alloc)
                /\ pc' = "loaded"
                /\ err' = err
        /\ UNCHANGED <<tableVars, inputVars, modelVars, filterVars>>

\* BECModel.load() on a constructed object
Load ==
    /\ pc = "constructed"
    /\ \E overwrite \in BOOLEAN : load(overwrite)

\* BECModel.load() on an object that is loaded already
Reload ==
    /\ pc = "loaded"
    /\ Len(requests) + 2 <= MaxRequests
    /\ \E overwrite \in BOOLEAN : load(overwrite)

\* BECModel.model(): data["becinit"] = np.zeros(...), up to the first
\* iteration of the loops
ModelStart ==
    /\ pc = "loaded"
    /\ becinit' = zeros(shape)
    /\ prev' = zeros(shape)
    /\ pos' = NoIteration
    /\ pc' = "model"
    /\ UNCHANGED <<err, tableVars, inputVars, lookupVars, cacheVars, loadedVars,
                   filterVars>>

\* BECModel.model(): one iteration of the innermost loop, or the end of the
\* loops
ModelStep ==
    /\ pc = "model"
    /\ LET it == IF pos = NoIteration THEN first_iteration(elevation)
                 ELSE next_iteration(pos, elevation, config)
       IN  IF it # NoIteration
           THEN /\ becinit' = iterate(becinit, it, elevation, config,
                                       becvalue_lookup, shape, ruleimg, aspect, dem)
                /\ prev' = becinit
                /\ pos' = it
                /\ pc' = pc
           ELSE /\ pc' = "modelled"
                /\ UNCHANGED modelVars
    /\ UNCHANGED <<err, tableVars, inputVars, lookupVars, cacheVars, loadedVars,
                   filterVars>>

\* Updates of the configuration of the filters: noise thresholds of 1 and 2
\* cells; majority filters of 1 cell, and of 3 cells (low slopes) and 2
\* cells (steep slopes).
FilterUpdates ==
    { [ noise_removal_threshold_ha |-> n,
        majority_filter_size_slope_low_metres |-> m[1],
        majority_filter_size_slope_steep_metres |-> m[2] ]
      : n \in {1, 2}, m \in {<<100, 100>>, <<250, 150>>} }

\* BECModel.update_config(update_dict), between model() and postfilter();
\* validate_config accepts these updates
UpdateConfig ==
    /\ pc = "modelled"
    /\ \E update_dict \in FilterUpdates :
          config' = [key \in DOMAIN config |->
                        IF key \in DOMAIN update_dict THEN update_dict[key]
                        ELSE config[key]]
    /\ UNCHANGED <<pc, err, tableVars, shape, dem, slope_tif, aspect_tif, rules>>
    /\ UNCHANGED <<lookupVars, cacheVars, loadedVars, modelVars, filterVars>>

IndexError == "IndexError"

\* The orders in which a process may iterate a set of the three type names.
TypeOrders ==
    { <<"alpine", "parkland", "woodland">>, <<"alpine", "woodland", "parkland">>,
      <<"parkland", "alpine", "woodland">>, <<"parkland", "woodland", "alpine">>,
      <<"woodland", "alpine", "parkland">>, <<"woodland", "parkland", "alpine">> }

\* postfilter(): data["becinit_grouped"].  Reading high_elevation_types
\* evaluates high_elevation_merges, which may raise, and iterates the set of
\* the types for the first time: in an order the process keeps from then on.
Group ==
    /\ pc = "modelled"
    /\ IF high_elevation_merges_raises(elevation, rulepolys)
       THEN /\ becinit_grouped' = becinit
            /\ hash_order' = hash_order
            /\ pc' = "failed"
            /\ err' = IndexError
       ELSE /\ \E order \in TypeOrders :
                  /\ hash_order' = order
                  /\ becinit_grouped' =
                        group(shape, becinit,
                              high_elevation_merges(elevation, becvalue_lookup, rulepolys),
                              order)
            /\ pc' = "grouped"
            /\ err' = err
    /\ UNCHANGED <<tableVars, inputVars, lookupVars, cacheVars, loadedVars, modelVars>>
    /\ UNCHANGED <<majority, postmajority, noise, noise_fill, highelev, tier, prev_highelev>>

\* postfilter(): data["majority"]
MajorityFilter ==
    /\ pc = "grouped"
    /\ majority' = majority_filter(config, shape, slope, becinit_grouped)
    /\ pc' = "majority"
    /\ UNCHANGED <<err, tableVars, inputVars, lookupVars, cacheVars, loadedVars,
                   modelVars>>
    /\ UNCHANGED <<hash_order, becinit_grouped, postmajority, noise, noise_fill, highelev, tier,
                   prev_highelev>>

\* postfilter(): data["postmajority"]
Ungroup ==
    /\ pc = "majority"
    /\ postmajority' =
          ungroup(shape, majority, ruleimg,
                  high_elevation_merges(elevation, becvalue_lookup, rulepolys), hash_order)
    /\ pc' = "postmajority"
    /\ UNCHANGED <<err, tableVars, inputVars, lookupVars, cacheVars, loadedVars,
                   modelVars>>
    /\ UNCHANGED <<hash_order, becinit_grouped, majority, noise, noise_fill, highelev, tier,
                   prev_highelev>>

\* postfilter(): data["noise"], the basic noise filter
NoiseFilter ==
    /\ pc = "postmajority"
    /\ LET keys == beclabel_lookup_keys(elevation)
       IN  noise' = noise_filter(config, shape, postmajority, keys, Len(keys))
    /\ pc' = "noise"
    /\ UNCHANGED <<err, tableVars, inputVars, lookupVars, cacheVars, loadedVars,
                   modelVars>>
    /\ UNCHANGED <<hash_order, becinit_grouped, majority, postmajority, noise_fill, highelev, tier,
                   prev_highelev>>

\* postfilter(): data["noise_fill"], the holes left by the noise filter
FillHoles ==
    /\ pc = "noise"
    /\ \E alloc \in distance_transform_edt(shape, {c \in Cells(shape) : noise[c] # 0}) :
          noise_fill' = fill_holes(shape, noise, ruleimg, alloc)
    /\ pc' = "noise_fill"
    /\ UNCHANGED <<err, tableVars, inputVars, lookupVars, cacheVars, loadedVars,
                   modelVars>>
    /\ UNCHANGED <<hash_order, becinit_grouped, majority, postmajority, noise, highelev, tier,
                   prev_highelev>>

\* postfilter(): data["highelev"] = data["noise_fill"].copy()
HighElevationStart ==
    /\ pc = "noise_fill"
    /\ highelev' = noise_fill
    /\ prev_highelev' = noise_fill
    /\ tier' = 0
    /\ pc' = "highelev"
    /\ UNCHANGED <<err, tableVars, inputVars, lookupVars, cacheVars, loadedVars,
                   modelVars>>
    /\ UNCHANGED <<hash_order, becinit_grouped, majority, postmajority, noise, noise_fill>>

\* postfilter(): one type of dissolve_types[:-1], or the end of the loop
HighElevationStep ==
    /\ pc = "highelev"
    /\ IF tier < Len(dissolve_types(high_elevation_merges(elevation, becvalue_lookup,
                                                          rulepolys), hash_order)) - 1
       THEN /\ highelev' =
                  high_elevation_step(config, shape, highelev, ruleimg,
                                      high_elevation_merges(elevation, becvalue_lookup,
                                                            rulepolys),
                                      hash_order, tier + 1)
            /\ prev_highelev' = highelev
            /\ tier' = tier + 1
            /\ pc' = pc
       ELSE /\ pc' = "filtered"
            /\ UNCHANGED <<highelev, prev_highelev, tier>>
    /\ UNCHANGED <<err, tableVars, inputVars, lookupVars, cacheVars, loadedVars,
                   modelVars>>
    /\ UNCHANGED <<hash_order, becinit_grouped, majority, postmajority, noise, noise_fill>>

ValueError == "ValueError"

\* The neighbours of a cell that skimage's remove_small_holes and
\* remove_small_objects connect it to: ndimage.generate_binary_structure(2,
\* connectivity) holds the cells at a city-block distance of connectivity or
\* less, 1 when connectivity is below 1.
skimage_neighbours(connectivity) == IF connectivity <= 1 THEN 4 ELSE 8

\* connectivity=(config["cell_connectivity"] * 4)
shapes_connectivity(cfg) == cfg.cell_connectivity * 4

\* rasterio.features.shapes raises ValueError for a connectivity other than
\* 4 and 8, and connects a cell to that many neighbours otherwise.
shapes_raises(connectivity) == connectivity \notin {4, 8}

\* postfilter(): data["becvalue_polys"], the features of data["highelev"]
Vectorize ==
    /\ pc = "filtered"
    /\ IF shapes_raises(shapes_connectivity(config))
       THEN pc' = "failed" /\ err' = ValueError
       ELSE pc' = "vectorized" /\ err' = err
    /\ UNCHANGED <<tableVars, inputVars, lookupVars, cacheVars, loadedVars, modelVars,
                   filterVars>>

(***************************************************************************)
(* Inputs                                                                  *)
(***************************************************************************)
MkRow(poly, label, cool, neutral, warm) ==
    [ polygon_number |-> poly, beclabel |-> label,
      becvalue |-> becmaster_becvalue(label),
      cool_low |-> cool[1], cool_high |-> cool[2],
      neutral_low |-> neutral[1], neutral_high |-> neutral[2],
      warm_low |-> warm[1], warm_high |-> warm[2] ]

\* Cell sizes in metres, on either side of the limits 25 and 100 and of the
\* multiples of 5.
CellSizes == {5, 20, 24, 25, 26, 30, 50, 95, 100, 101, 105, 110}

\* A configuration for small rasters: 100 m cells, thresholds of 2 ha.
BaseConfig ==
    [ cell_size_metres |-> 100,
      dem |-> "dem_ok.tif",
      cell_connectivity |-> 1,
      noise_removal_threshold_ha |-> 2,
      high_elevation_removal_threshold_ha |-> 2,
      expand_bounds_metres |-> 100,
      aspect_neutral_slope_threshold_percent |-> 15,
      majority_filter_steep_slope_threshold_percent |-> 25,
      majority_filter_size_slope_low_metres |-> 250,
      majority_filter_size_slope_steep_metres |-> 150,
      aspect_midpoint_cool_degrees |-> 0,
      aspect_midpoint_neutral_east_degrees |-> 90,
      aspect_midpoint_warm_degrees |-> 200,
      aspect_midpoint_neutral_west_degrees |-> 290 ]

\* The bounds of the rule polygons of the tests (test_align), in decimetres.
TestBounds == <<14459336, 4673996, 14632299, 4889031>>

\* No raster is loaded.
NoRasters == [dem |-> NoFile, slope |-> NoFile, aspect |-> NoFile]

\* Nothing derived yet: the state right after the tables were read, with an
\* empty workspace.
Unloaded ==
    /\ pc = "read"
    /\ err = "none"
    /\ becvalue_lookup = Absent
    /\ beclabel_lookup = Absent
    /\ slope = Absent
    /\ aspect = Absent
    /\ ruleimg = Absent
    /\ bounds = Absent
    /\ becinit = Absent
    /\ prev = Absent
    /\ pos = NoIteration
    /\ becinit_grouped = Absent
    /\ majority = Absent
    /\ postmajority = Absent
    /\ noise = Absent
    /\ noise_fill = Absent
    /\ highelev = Absent
    /\ prev_highelev = Absent
    /\ tier = 0
    /\ hash_order = Absent
    /\ wksp = EmptyWorkspace
    /\ requests = << >>
    /\ derived_from = NoRasters

\* The same with the bounds within BC.
Fresh == Unloaded /\ outside_bc = FALSE

\* A raster of one steep cell inside rule polygon 1.
OneCell ==
    /\ shape = <<1, 1>>
    /\ dem = [c \in Cells(<<1, 1>>) |-> 50]
    /\ slope_tif = [c \in Cells(<<1, 1>>) |-> 20]
    /\ aspect_tif = [c \in Cells(<<1, 1>>) |-> 900]
    /\ rules = [c \in Cells(<<1, 1>>) |-> 1]

\* Bounds of the tables whose bands vary.
MaxBandRows == 3

NumBandValues == 4

BandValues == {100 * k : k \in 0..(NumBandValues - 1)}

LabelList == <<"MS  xk 1", "ESSFdc 1", "ESSFdcw", "ESSFdcp", "IMA un", "ESSFwcw">>

\* The band a row has at the positions that are not varied.
Stack(j) == <<100 * (j - 1), 100 * j>>

\* Tables of n rows with any bands at the positions in at, the last row in
\* polygon lastpoly and the other rows in polygon 1.
BandTables(n, at, lastpoly) ==
    { [i \in 1..n |->
          MkRow(IF i = n THEN lastpoly ELSE 1,
                LabelList[((i - 1) % Len(LabelList)) + 1],
                IF "cool" \in at THEN b[i] ELSE Stack(i),
                IF "neutral" \in at THEN b[i] ELSE Stack(i),
                IF "warm" \in at THEN b[i] ELSE Stack(i))]
      : b \in [1..n -> BandValues \X BandValues] }

InitBands ==
    /\ Fresh
    /\ total_bounds = TestBounds
    /\ config = BaseConfig
    /\ OneCell
    /\ rulepolys \in {<<1>>, <<1, 2>>}
    /\ \E n \in 1..MaxBandRows :
       \E at \in {{"cool"}, {"neutral"}, {"warm"}, Positions} :
       \E lastpoly \in {1, 2} :
          elevation \in BandTables(n, at, lastpoly)

NextBands == ValidateData \/ Load

SpecBands == InitBands /\ [][NextBands]_vars

\* Bounds of the tables whose labels vary.
MaxLabelRows == 4

NumPolygons == 2

\* The number of rows of polygon poly among the first i rows.
CountOf(polyOf, poly, i) == Cardinality({j \in 1..i : polyOf[j] = poly})

\* Tables of n rows with any label in any polygon; the bands of a polygon's
\* rows are stacked on one another, at all three positions alike.
LabelTables(n) ==
    { [i \in 1..n |->
          LET band == Stack(CountOf(polyOf, polyOf[i], i))
          IN  MkRow(polyOf[i], labelOf[i], band, band, band)]
      : polyOf \in [1..n -> 1..NumPolygons], labelOf \in [1..n -> BecLabels] }

\* The polygon numbers of a table in increasing order.
PolygonsOf(elev) ==
    LET nums == {elev[i].polygon_number : i \in DOMAIN elev}
        Test(p) == p \in nums
    IN  SelectRows([p \in 1..NumPolygons |-> p], Test, 1)

InitLabels ==
    /\ Fresh
    /\ total_bounds = TestBounds
    /\ config = BaseConfig
    /\ OneCell
    /\ \E n \in 1..MaxLabelRows : elevation \in LabelTables(n)
    /\ rulepolys = PolygonsOf(elevation)

SpecLabels == InitLabels /\ [][NextBands]_vars

\* Bound of the tables whose two rows split [0, 100 * (NumCuts + 1)) at a
\* cut of their own at each position.
NumCuts == 2

Cuts == {100 * k : k \in 1..NumCuts}

TopElevation == 100 * (NumCuts + 1)

\* The band of row i of two: below the cut when the row is the lower one.
Half(i, lowerRow, cut) == IF i = lowerRow THEN <<0, cut>> ELSE <<cut, TopElevation>>

\* Two rows of polygon 1 that split [0, TopElevation) at every position;
\* which row is the lower one and where the cut is varies with the position.
SplitTables ==
    { [i \in 1..2 |->
          MkRow(1, LabelList[i], Half(i, lowerRow[1], cut[1]),
                Half(i, lowerRow[2], cut[2]), Half(i, lowerRow[3], cut[3]))]
      : lowerRow \in [1..3 -> 1..2], cut \in [1..3 -> Cuts] }

\* Midpoints of the cool zone: the default, one that moves the class that
\* spans 0 to the second step, one whose spans are no multiples of 10.
CoolMidpoints == {0, 350, 357}

\* Aspects of aspect.tif, in tenths of a degree, on either side of the
\* limits of the classes around 0 and at the zone midpoints.
AspectSamples == {0, 19, 20, 49, 50, 449, 900, 3519, 3520, 3549, 3550, 3599}

\* gdal gives a flat cell slope 0 and no aspect, and a cell next to a void
\* neither: <<slope, aspect>> of one cell.
TerrainSamples ==
    {<<0, NoData>>, <<NoData, NoData>>, <<10, 2000>>}
        \cup {<<20, a>> : a \in AspectSamples}

ElevationSamples == {0, 50, 101, 150, 250, TopElevation}

InitModel ==
    /\ Fresh
    /\ total_bounds = TestBounds
    /\ \E m \in CoolMidpoints :
          config = [BaseConfig EXCEPT !.aspect_midpoint_cool_degrees = m]
    /\ shape = <<1, 1>>
    /\ \E e \in ElevationSamples : dem = [c \in Cells(<<1, 1>>) |-> e]
    /\ \E t \in TerrainSamples :
          /\ slope_tif = [c \in Cells(<<1, 1>>) |-> t[1]]
          /\ aspect_tif = [c \in Cells(<<1, 1>>) |-> t[2]]
    /\ rules = [c \in Cells(<<1, 1>>) |-> 1]
    /\ elevation \in SplitTables
    /\ rulepolys = <<1>>

NextModel == ValidateData \/ Load \/ ModelStart \/ ModelStep

SpecModel == InitModel /\ [][NextModel]_vars

\* The same tables over one steep cell with fewer elevations and aspects:
\* the states in which the order of the assignments decides the code.
InitOrder ==
    /\ Fresh
    /\ total_bounds = TestBounds
    /\ \E m \in {0, 350} :
          config = [BaseConfig EXCEPT !.aspect_midpoint_cool_degrees = m]
    /\ shape = <<1, 1>>
    /\ \E e \in {50, 101, 150} : dem = [c \in Cells(<<1, 1>>) |-> e]
    /\ slope_tif = [c \in Cells(<<1, 1>>) |-> 20]
    /\ \E a \in {0, 49, 900, 3550} : aspect_tif = [c \in Cells(<<1, 1>>) |-> a]
    /\ rules = [c \in Cells(<<1, 1>>) |-> 1]
    /\ elevation \in SplitTables
    /\ rulepolys = <<1>>

SpecOrder == InitOrder /\ [][NextModel]_vars

\* Bounds of the rasters that are filtered.
GridRows == 3

GridCols == 4

MaxPatch == 3

GridShape == <<GridRows, GridCols>>

\* The connected sets of up to n cells of the raster.
RECURSIVE Patches(_)
Patches(n) ==
    IF n = 1 THEN {{c} : c \in Cells(GridShape)}
    ELSE LET smaller == Patches(n - 1)
         IN  smaller \cup
             UNION { { S \cup {d} : d \in {x \in Cells(GridShape) \ S :
                                              \E y \in S : Adjacent(x, y, 1)} }
                     : S \in smaller }

\* One rule polygon with a base, a woodland, a parkland and an alpine zone,
\* each over 100 m of elevation at every position.
FilterTable ==
    << MkRow(1, "ESSFdc 1", Stack(1), Stack(1), Stack(1)),
       MkRow(1, "ESSFdcw", Stack(2), Stack(2), Stack(2)),
       MkRow(1, "ESSFdcp", Stack(3), Stack(3), Stack(3)),
       MkRow(1, "IMA un", Stack(4), Stack(4), Stack(4)) >>

\* A raster in the parkland band but for a patch in the alpine band or above
\* every band, flat in its first two columns and steep, facing east, in the
\* others; the rule polygon covers it all, or all but the last column.
InitFilter ==
    /\ Fresh
    /\ total_bounds = TestBounds
    /\ config = BaseConfig
    /\ shape = GridShape
    /\ \E patch \in Patches(MaxPatch) : \E e \in {350, 450} :
          dem = [c \in Cells(GridShape) |-> IF c \in patch THEN e ELSE 250]
    /\ slope_tif = [c \in Cells(GridShape) |-> IF c[2] <= 2 THEN 0 ELSE 30]
    /\ aspect_tif = [c \in Cells(GridShape) |-> IF c[2] <= 2 THEN NoData ELSE 900]
    /\ \E covered \in {GridCols, GridCols - 1} :
          rules = [c \in Cells(GridShape) |-> IF c[2] <= covered THEN 1 ELSE 0]
    /\ elevation = FilterTable
    /\ rulepolys = <<1>>

NextFilter ==
    \/ ValidateData
    \/ Load
    \/ ModelStart
    \/ ModelStep
    \/ UpdateConfig
    \/ Group
    \/ MajorityFilter
    \/ Ungroup
    \/ NoiseFilter
    \/ FillHoles
    \/ HighElevationStart
    \/ HighElevationStep

SpecFilter == InitFilter /\ [][NextFilter]_vars

\* Coordinates of the corners of rule polygons, in decimetres, on both sides
\* of the origin and of the lines of the 100 m grid.
Coordinates == {-2500, -2000, -1125, -1, 0, 1, 875, 1000, 2999}

\* The expansions of the bounds, in metres.
Expansions == {0, 100}

\* One cell, one row and rule polygons of any bounds.
InitAlign ==
    /\ Fresh
    /\ \E e \in Expansions : config = [BaseConfig EXCEPT !.expand_bounds_metres = e]
    /\ OneCell
    /\ elevation = << MkRow(1, "ESSFdc 1", Stack(1), Stack(1), Stack(1)) >>
    /\ rulepolys = <<1>>
    /\ \E xmin, xmax \in Coordinates, ymin, ymax \in {-2500, 1} :
          /\ xmin <= xmax
          /\ ymin <= ymax
          /\ total_bounds = <<xmin, ymin, xmax, ymax>>

SpecAlign == InitAlign /\ [][NextBands]_vars

\* The values of cell_connectivity: skimage style, rasterio style.
Connectivities == {1, 2, 4, 8}

\* The rasters of the filters with one or two cells in the alpine band and
\* any connectivity.
InitVector ==
    /\ Fresh
    /\ total_bounds = TestBounds
    /\ \E k \in Connectivities : config = [BaseConfig EXCEPT !.cell_connectivity = k]
    /\ shape = GridShape
    /\ \E patch \in Patches(2) :
          dem = [c \in Cells(GridShape) |-> IF c \in patch THEN 350 ELSE 250]
    /\ slope_tif = [c \in Cells(GridShape) |-> IF c[2] <= 2 THEN 0 ELSE 30]
    /\ aspect_tif = [c \in Cells(GridShape) |-> IF c[2] <= 2 THEN NoData ELSE 900]
    /\ rules = [c \in Cells(GridShape) |-> 1]
    /\ elevation = FilterTable
    /\ rulepolys = <<1>>

NextVector ==
    \/ ValidateData
    \/ Load
    \/ ModelStart
    \/ ModelStep
    \/ Group
    \/ MajorityFilter
    \/ Ungroup
    \/ NoiseFilter
    \/ FillHoles
    \/ HighElevationStart
    \/ HighElevationStep
    \/ Vectorize

SpecVector == InitVector /\ [][NextVector]_vars

\* The rows of FilterTable and one row of a second rule polygon that has no
\* high elevation label.
TwoPolygonTable ==
    FilterTable \o << MkRow(2, "MS  xk 1", <<0, 400>>, <<0, 400>>, <<0, 400>>) >>

\* Rule polygon 2, which has no merge rule, over one cell and rule polygon 1
\* over the others; parkland but for a patch in the alpine band; majority
\* filters of 3 cells (low slopes) and 2 cells (steep slopes), which spread
\* the aggregate codes into polygon 2.
InitTiers ==
    /\ Fresh
    /\ total_bounds = TestBounds
    /\ \E n \in {1, 2} :
          config = [BaseConfig EXCEPT !.majority_filter_size_slope_low_metres = 250,
                                      !.majority_filter_size_slope_steep_metres = 150,
                                      !.noise_removal_threshold_ha = n]
    /\ shape = GridShape
    /\ \E patch \in Patches(MaxPatch) :
          dem = [c \in Cells(GridShape) |-> IF c \in patch THEN 350 ELSE 250]
    /\ slope_tif = [c \in Cells(GridShape) |-> IF c[2] <= 2 THEN 0 ELSE 30]
    /\ aspect_tif = [c \in Cells(GridShape) |-> IF c[2] <= 2 THEN NoData ELSE 900]
    /\ \E p \in {<<2, 2>>, <<2, 3>>, <<1, 4>>} :
          rules = [c \in Cells(GridShape) |-> IF c = p THEN 2 ELSE 1]
    /\ elevation = TwoPolygonTable
    /\ rulepolys = <<1, 2>>

SpecTiers == InitTiers /\ [][NextVector]_vars

\* The expansions of the rule polygons, in metres: none, less than a cell,
\* one cell, more than one cell, two cells.
RuleExpansions == {0, 50, 100, 150, 200}

\* The rasterized rule polygons: polygon 1 over one or two cells, polygon 2
\* over the last cell, no polygon elsewhere; any expansion.
InitRules ==
    /\ Fresh
    /\ total_bounds = TestBounds
    /\ \E e \in RuleExpansions : config = [BaseConfig EXCEPT !.expand_bounds_metres = e]
    /\ shape = GridShape
    /\ dem = [c \in Cells(GridShape) |-> 250]
    /\ slope_tif = [c \in Cells(GridShape) |-> 30]
    /\ aspect_tif = [c \in Cells(GridShape) |-> 900]
    /\ \E patch \in Patches(2) :
          rules = [c \in Cells(GridShape) |->
                      IF c \in patch THEN 1
                      ELSE IF c = <<GridRows, GridCols>> THEN 2 ELSE 0]
    /\ elevation = TwoPolygonTable
    /\ rulepolys = <<1, 2>>

SpecRules == InitRules /\ [][NextBands]_vars

\* Bound of the rasters of one row.
StripLen == 6

\* One rule polygon with three base zones, each over 100 m of elevation at
\* every position; no high elevation label.
BaseTable ==
    << MkRow(1, "ESSFdc 1", Stack(1), Stack(1), Stack(1)),
       MkRow(1, "ESSFdc 2", Stack(2), Stack(2), Stack(2)),
       MkRow(1, "MS  xk 1", Stack(3), Stack(3), Stack(3)) >>

\* A raster of one row, every cell in any of the three zones, steep and
\* facing east; majority filters of one cell; a noise threshold of 2 or 3
\* cells.
InitNoise ==
    /\ Fresh
    /\ total_bounds = TestBounds
    /\ \E n \in {2, 3} :
          config = [BaseConfig EXCEPT !.majority_filter_size_slope_low_metres = 100,
                                      !.majority_filter_size_slope_steep_metres = 100,
                                      !.noise_removal_threshold_ha = n]
    /\ shape = <<1, StripLen>>
    /\ dem \in [Cells(<<1, StripLen>>) -> {50, 150, 250}]
    /\ slope_tif = [c \in Cells(<<1, StripLen>>) |-> 30]
    /\ aspect_tif = [c \in Cells(<<1, StripLen>>) |-> 900]
    /\ rules = [c \in Cells(<<1, StripLen>>) |-> 1]
    /\ elevation = BaseTable
    /\ rulepolys = <<1>>

SpecNoise == InitNoise /\ [][NextVector]_vars

(***************************************************************************)
(* The construction of the object and the updates of its cell size         *)
(***************************************************************************)
ConfigValueError == "ConfigValueError"

\* BECModel.__init__(config_file): with a config file the configuration read
\* from it is validated; without one the default configuration is taken as
\* it is.  The tables are read next.
Construct ==
    /\ pc = "new"
    /\ \E config_file \in BOOLEAN :
          IF config_file
          THEN /\ config' = config
               /\ IF validate_config_raises(config)
                  THEN pc' = "failed" /\ err' = ConfigValueError
                  ELSE pc' = "read" /\ err' = err
          ELSE /\ config' = BaseConfig
               /\ pc' = "read"
               /\ err' = err
    /\ UNCHANGED <<tableVars, shape, dem, slope_tif, aspect_tif, rules>>
    /\ UNCHANGED <<lookupVars, cacheVars, loadedVars, modelVars, filterVars>>

\* Updates of the cell size alone, and with the distance by which the rule
\* polygons are expanded or with the noise threshold.
CellSizeUpdates ==
    { [cell_size_metres |-> size] : size \in CellSizes }
        \cup { [cell_size_metres |-> size, expand_bounds_metres |-> 200]
                 : size \in CellSizes }
        \cup { [cell_size_metres |-> size, noise_removal_threshold_ha |-> 1]
                 : size \in CellSizes }

\* BECModel.update_config(update_dict) on a constructed object: the
\* configuration is updated, then validated; the exception leaves the
\* object as it is by then.
UpdateCellSize ==
    /\ pc \in {"constructed", "loaded"}
    /\ \E update_dict \in CellSizeUpdates :
          config' = update_config(config, update_dict)
    /\ err' = IF validate_config_raises(config') THEN ConfigValueError ELSE "none"
    /\ UNCHANGED <<pc, tableVars, shape, dem, slope_tif, aspect_tif, rules>>
    /\ UNCHANGED <<lookupVars, cacheVars, loadedVars, modelVars, filterVars>>

\* An object yet to be constructed from a config file that gives any cell
\* size, or from no file; one cell, one row.
InitConfig ==
    /\ pc = "new"
    /\ err = "none"
    /\ NothingDerived
    /\ prev = Absent
    /\ pos = NoIteration
    /\ prev_highelev = Absent
    /\ tier = 0
    /\ hash_order = Absent
    /\ wksp = EmptyWorkspace
    /\ requests = << >>
    /\ outside_bc = FALSE
    /\ derived_from = NoRasters
    /\ \E size \in CellSizes : config = [BaseConfig EXCEPT !.cell_size_metres = size]
    /\ OneCell
    /\ elevation = << MkRow(1, "ESSFdc 1", Stack(1), Stack(1), Stack(1)) >>
    /\ rulepolys = <<1>>
    /\ total_bounds = TestBounds

NextConfig == Construct \/ ValidateData \/ Load \/ UpdateCellSize

SpecConfig == InitConfig /\ [][NextConfig]_vars

\* The cell sizes that validate_config accepts.
ValidCellSizes == {5 * k : k \in 5..20}

\* A constructed object with or without a DEM file configured, bounds
\* within BC or beyond, any valid cell size and an empty workspace.
InitCache ==
    /\ Unloaded
    /\ outside_bc \in BOOLEAN
    /\ \E size \in ValidCellSizes : \E file \in {"", "dem_ok.tif"} :
          config = [BaseConfig EXCEPT !.cell_size_metres = size, !.dem = file]
    /\ OneCell
    /\ elevation = << MkRow(1, "ESSFdc 1", Stack(1), Stack(1), Stack(1)) >>
    /\ rulepolys = <<1>>
    /\ total_bounds = TestBounds

NextCache == ValidateData \/ Load \/ Reload

SpecCache == InitCache /\ [][NextCache]_vars

\* Updates of the DEM file, to none, to a file that exists or to one that
\* does not (test_invalid_dem_path), and of the cell size.
SourceUpdates ==
    { [dem |-> file] : file \in DemFiles \cup {"", "dem_does_not_exit.tif"} }
        \cup { [cell_size_metres |-> size] : size \in {25, 50, 100} }

\* BECModel.update_config(update_dict) of the DEM or of the cell size, before
\* or after load().
UpdateSource ==
    /\ pc \in {"constructed", "loaded"}
    /\ \E update_dict \in SourceUpdates :
          config' = update_config(config, update_dict)
    /\ err' = IF validate_config_raises(config') THEN ConfigValueError ELSE "none"
    /\ UNCHANGED <<pc, tableVars, shape, dem, slope_tif, aspect_tif, rules>>
    /\ UNCHANGED <<lookupVars, cacheVars, loadedVars, modelVars, filterVars>>

\* A constructed object with 100 m cells, with or without a DEM file, whose
\* configuration is updated between its loads.
InitSources ==
    /\ Unloaded
    /\ outside_bc \in BOOLEAN
    /\ \E file \in {"", "dem_ok.tif"} : config = [BaseConfig EXCEPT !.dem = file]
    /\ OneCell
    /\ elevation = << MkRow(1, "ESSFdc 1", Stack(1), Stack(1), Stack(1)) >>
    /\ rulepolys = <<1>>
    /\ total_bounds = TestBounds

NextSources == ValidateData \/ Load \/ Reload \/ UpdateSource

SpecSources == InitSources /\ [][NextSources]_vars

(***************************************************************************)
(* Properties of the tables, the lookups and the merge rules               *)
(***************************************************************************)
Loaded == pc \in {"loaded", "model", "modelled"}

PolygonNumbers == {elevation[i].polygon_number : i \in DOMAIN elevation}

\* The rows of a polygon whose band at temp holds elevation e.
Covering(rows, temp, e) ==
    {i \in DOMAIN rows : low(rows[i], temp) <= e /\ e < high(rows[i], temp)}

Boundaries(rows, temp) ==
    {low(rows[i], temp) : i \in DOMAIN rows} \cup {high(rows[i], temp) : i \in DOMAIN rows}

\* Two bands of the polygon share an elevation.
HasOverlap(rows, temp) ==
    \E e \in Boundaries(rows, temp) : Cardinality(Covering(rows, temp, e)) >= 2

\* An elevation between the lowest low and the highest high is in no band.
HasGap(rows, temp) ==
    \E e \in Boundaries(rows, temp) :
        /\ \E i \in DOMAIN rows : low(rows[i], temp) <= e
        /\ \E i \in DOMAIN rows : e < high(rows[i], temp)
        /\ Covering(rows, temp, e) = {}

\* C4: after load(), every label of the elevation table is recovered from
\* its code by the reverse lookup, no two labels share a code, and the
\* reverse lookup maps 0 to None.
C4_LabelRoundTrip ==
    Loaded =>
        /\ \A i \in DOMAIN elevation :
              LET l == elevation[i].beclabel
              IN  /\ l \in DOMAIN becvalue_lookup
                  /\ becvalue_lookup[l] \in DOMAIN beclabel_lookup
                  /\ beclabel_lookup[becvalue_lookup[l]] = l
        /\ \A l1, l2 \in DOMAIN becvalue_lookup :
              becvalue_lookup[l1] = becvalue_lookup[l2] => l1 = l2
        /\ 0 \in DOMAIN beclabel_lookup
        /\ beclabel_lookup[0] = None

\* A loaded table with three labels, one of them on two rows.
C4_Witness ==
    /\ pc = "loaded"
    /\ Cardinality({elevation[i].beclabel : i \in DOMAIN elevation}) = 3
    /\ Len(elevation) = 4

\* The rules of the property for one polygon, in order.
RulesOf(poly) ==
    LET all == high_elevation_merges(elevation, becvalue_lookup, rulepolys)
        Test(r) == r.rule = poly
    IN  SelectRows(all, Test, 1)

\* The codes of the polygon's labels that are no alpine, parkland or
\* woodland label: its base labels.
BaseCodes(poly) ==
    { elevation[i].becvalue : i \in
        { j \in DOMAIN elevation :
            /\ elevation[j].polygon_number = poly
            /\ elevation[j].beclabel \notin
                 Range(alpine_of(elevation, poly)) \cup Range(parkland_of(elevation, poly))
                     \cup Range(woodland_of(elevation, poly)) } }

\* C5: for every rule polygon with an alpine, a parkland and a woodland
\* label, high_elevation_merges holds exactly three rules for the polygon,
\* alpine, parkland, woodland, each targeting the code of the next and the
\* woodland rule a base code of the polygon.
C5_MergeChain ==
    Loaded =>
        \A poly \in Range(rulepolys) :
            ( /\ alpine_of(elevation, poly) # << >>
              /\ parkland_of(elevation, poly) # << >>
              /\ woodland_of(elevation, poly) # << >> )
            => /\ ~high_elevation_merges_raises(elevation, rulepolys)
               /\ LET rs == RulesOf(poly)
                  IN  /\ Len(rs) = 3
                      /\ rs[1].type = "alpine"
                      /\ rs[2].type = "parkland"
                      /\ rs[3].type = "woodland"
                      /\ rs[1].becvalue_target = rs[2].becvalue
                      /\ rs[2].becvalue_target = rs[3].becvalue
                      /\ rs[3].becvalue_target \in BaseCodes(poly)

\* C6: for every rule polygon with an alpine label and neither a parkland
\* nor a woodland label, high_elevation_merges does not fail and holds
\* exactly one rule for the polygon, an alpine rule targeting a base code of
\* the polygon.
C6_AlpineOnly ==
    Loaded =>
        \A poly \in Range(rulepolys) :
            ( /\ alpine_of(elevation, poly) # << >>
              /\ parkland_of(elevation, poly) = << >>
              /\ woodland_of(elevation, poly) = << >> )
            => /\ ~high_elevation_merges_raises(elevation, rulepolys)
               /\ LET rs == RulesOf(poly)
                  IN  /\ Len(rs) = 1
                      /\ rs[1].type = "alpine"
                      /\ rs[1].becvalue_target \in BaseCodes(poly)

\* C10: a table that validate_data accepts has, for every rule polygon and
\* every aspect position, bands without a gap and without an overlap.
C10_BandValidation ==
    pc = "constructed" =>
        \A poly \in PolygonNumbers : \A temp \in Positions :
            /\ ~HasGap(RowsOf(elevation, poly), temp)
            /\ ~HasOverlap(RowsOf(elevation, poly), temp)

(***************************************************************************)
(* Properties of the initial classifier                                    *)
(***************************************************************************)
\* Every iteration of the loops of model().
AllIterations ==
    UNION { { [row |-> k, transition |-> i, step |-> steps(config, i)[j]] :
                k \in DOMAIN elevation, j \in DOMAIN steps(config, i) }
            : i \in 1..4 }

\* The cell is in the mask of one of the assignments of the iteration.
IterMask(it, c) ==
    \E w \in Range(step_writes(elevation[it.row], it.transition, it.step, config)) :
        InMask(w, ruleimg[c], aspect[c], dem[c], config)

\* The orders of n rows.
Orders(n) == {p \in [1..n -> 1..n] : \A i, j \in 1..n : p[i] = p[j] => i = j}

\* In the order perm the bands of the rows at temp follow one another from
\* emin to emax.
Chain(rows, perm, temp, emin, emax) ==
    /\ rows # << >>
    /\ low(rows[perm[1]], temp) = emin
    /\ high(rows[perm[Len(rows)]], temp) = emax
    /\ \A k \in 1..(Len(rows) - 1) :
          high(rows[perm[k]], temp) = low(rows[perm[k + 1]], temp)
    /\ \A k \in 1..Len(rows) : low(rows[k], temp) <= high(rows[k], temp)

\* The rows partition [emin, emax) at temp.
Partition(rows, temp, emin, emax) ==
    \E perm \in Orders(Len(rows)) : Chain(rows, perm, temp, emin, emax)

\* The rows partition [emin, emax) at the three positions in one order.
CommonOrder(rows, emin, emax) ==
    \E perm \in Orders(Len(rows)) :
        \A temp \in Positions : Chain(rows, perm, temp, emin, emax)

\* The lowest low and the highest high of the rows at the cool position.
LowestLow(rows) ==
    CHOOSE e \in {rows[i].cool_low : i \in DOMAIN rows} :
        \A i \in DOMAIN rows : e <= rows[i].cool_low

HighestHigh(rows) ==
    CHOOSE e \in {rows[i].cool_high : i \in DOMAIN rows} :
        \A i \in DOMAIN rows : e >= rows[i].cool_high

\* Every span between two midpoints is a multiple of the 10 degree step.
SpansInSteps == \A i \in 1..4 : aspect_zone_differences(config)[i] % 10 = 0

\* The rows of polygon poly with an assignment whose mask holds the cell.
MaskingRows(poly, c) ==
    { it.row : it \in { x \in AllIterations :
                          /\ elevation[x.row].polygon_number = poly
                          /\ IterMask(x, c) } }

\* The cells of polygon poly with an aspect in [0, 360) and an elevation in
\* [emin, emax) are in the masks of the assignments of one row only, and
\* hold a code once model() is through.
ClassifiedOnce(poly, emin, emax) ==
    \A c \in Cells(shape) :
        ( /\ ruleimg[c] = poly
          /\ aspect[c] \in 0..359
          /\ emin <= dem[c]
          /\ dem[c] < emax )
        => /\ pc = "modelled" => becinit[c] # 0
           /\ Cardinality(MaskingRows(poly, c)) <= 1

RotatedRange(amin) == {x % 360 : x \in amin..(amin + 9)}

\* C2: an iteration of model() whose aspect class spans 0 (aspect_min above
\* aspect_max) assigns the code of its row to exactly the cells of the row's
\* polygon, in the interpolated band, whose aspect lies in
\* [aspect_min, aspect_min + 10) taken modulo 360, and leaves the others.
C2_AspectWrap ==
    ( /\ pc = "model"
      /\ pos # NoIteration
      /\ aspect_min(config, pos.transition, pos.step)
             > aspect_max(config, pos.transition, pos.step) )
    => LET row == elevation[pos.row]
           amin == aspect_min(config, pos.transition, pos.step)
           emin == elev_min(config, row, pos.transition, pos.step)
           emax == elev_max(config, row, pos.transition, pos.step)
       IN  \A c \in Cells(shape) :
              becinit[c] =
                  IF /\ ruleimg[c] = row.polygon_number
                     /\ aspect[c] \in RotatedRange(amin)
                     /\ emin <= dem[c]
                     /\ dem[c] < emax
                  THEN becvalue_lookup[row.beclabel]
                  ELSE prev[c]

\* The second of the two assignments gave a cell with an aspect just above 0
\* its code.
C2_Witness ==
    /\ pc = "model"
    /\ pos # NoIteration
    /\ aspect_min(config, pos.transition, pos.step)
           > aspect_max(config, pos.transition, pos.step)
    /\ \E c \in Cells(shape) :
          /\ aspect[c] < aspect_max(config, pos.transition, pos.step)
          /\ slope[c] >= config.aspect_neutral_slope_threshold_percent
          /\ prev[c] = 0
          /\ becinit[c] = becvalue_lookup[elevation[pos.row].beclabel]

\* The rows of the cell's rule polygon whose neutral band holds its elevation.
NeutralRows(c) ==
    { i \in DOMAIN elevation :
        /\ elevation[i].polygon_number = ruleimg[c]
        /\ elevation[i].neutral_low <= dem[c]
        /\ dem[c] < elevation[i].neutral_high }

Flat(c) == slope[c] < config.aspect_neutral_slope_threshold_percent

\* A flat cell has the aspect of the neutral east midpoint.
FlatIsNeutralEast ==
    Loaded =>
        \A c \in Cells(shape) :
            Flat(c) => aspect[c] = config.aspect_midpoint_neutral_east_degrees

\* After model() a flat cell holds the code of a row of its polygon whose
\* neutral band holds its elevation.
FlatByNeutralBand ==
    \A c \in Cells(shape) :
        (Flat(c) /\ NeutralRows(c) # {})
        => becinit[c] \in {becvalue_lookup[elevation[i].beclabel] : i \in NeutralRows(c)}

Grouped ==
    pc \in {"grouped", "majority", "postmajority", "noise", "noise_fill", "highelev",
            "filtered"}

Ungrouped == pc \in {"postmajority", "noise", "noise_fill", "highelev", "filtered"}

Filled == pc \in {"noise_fill", "highelev", "filtered"}

\* The connected components of the cells that hold value v in grid.
ComponentsOf(grid, v) ==
    Components({c \in Cells(shape) : grid[c] = v}, config.cell_connectivity)

\* No connected component of equal code, 0 included, is smaller than the
\* noise threshold.
Clean(grid) ==
    \A v \in {grid[c] : c \in Cells(shape)} :
        \A K \in ComponentsOf(grid, v) : Cardinality(K) >= noise_threshold(config)

\* Every grid that the noise filter and the hole fill can make of grid.
NoiseAndFill(grid) ==
    LET keys == beclabel_lookup_keys(elevation)
        out == noise_filter(config, shape, grid, keys, Len(keys))
    IN  { fill_holes(shape, out, ruleimg, alloc) :
            alloc \in distance_transform_edt(shape, {c \in Cells(shape) : out[c] # 0}) }

\* C8 as stated: the noise filter and the hole fill return a grid without a
\* connected component of equal code smaller than the noise threshold as it
\* is, and applied to their own result they return it again.
C8_CleanStaysClean ==
    (pc = "noise_fill" /\ Clean(postmajority))
    => /\ noise_fill = postmajority
       /\ NoiseAndFill(noise_fill) = {noise_fill}

\* C8: the noise filter and the hole fill return a grid as it is when it
\* holds only 0 and codes of the reverse lookup, has no connected component
\* of equal code (0 included) smaller than the noise threshold and has no 0
\* inside the rule polygons; applied to their own result they return it
\* again.
C8_NoiseIdempotence ==
    ( /\ pc = "noise_fill"
      /\ Clean(postmajority)
      /\ \A c \in Cells(shape) :
            /\ postmajority[c] \in DOMAIN beclabel_lookup
            /\ postmajority[c] = 0 => ruleimg[c] = 0 )
    => /\ noise_fill = postmajority
       /\ NoiseAndFill(noise_fill) = {noise_fill}

\* A grid of two codes and a strip of 0 outside the rule polygons, with a
\* threshold of two cells or more, went through the two stages.
C8_Witness ==
    /\ pc = "noise_fill"
    /\ noise_threshold(config) >= 2
    /\ Clean(postmajority)
    /\ \A c \in Cells(shape) :
          /\ postmajority[c] \in DOMAIN beclabel_lookup
          /\ postmajority[c] = 0 => ruleimg[c] = 0
    /\ Cardinality({postmajority[c] : c \in Cells(shape)} \ {0}) >= 2
    /\ \E c \in Cells(shape) : postmajority[c] = 0

\* C9 as stated: a cell that model() leaves at 0 is 0 after the majority
\* filter, the ungrouping, the noise filter, the hole fill and the high
\* elevation filter.
C9_ZeroEverywhere ==
    \A c \in Cells(shape) :
        (Grouped /\ becinit[c] = 0)
        => /\ pc # "grouped" => majority[c] = 0
           /\ Ungrouped => postmajority[c] = 0
           /\ pc \in {"noise", "noise_fill", "highelev", "filtered"} => noise[c] = 0
           /\ Filled => noise_fill[c] = 0
           /\ pc \in {"highelev", "filtered"} => highelev[c] = 0

\* C9: a cell that model() leaves at 0 is 0 in the grouped grid; a cell that
\* is 0 after the majority filter is 0 after the ungrouping; a cell outside
\* the rule polygons that is 0 after the noise filter is 0 after the hole
\* fill and during and after the high elevation filter.
C9_ZeroPropagation ==
    \A c \in Cells(shape) :
        /\ (Grouped /\ becinit[c] = 0) => becinit_grouped[c] = 0
        /\ (Ungrouped /\ majority[c] = 0) => postmajority[c] = 0
        /\ (Filled /\ noise[c] = 0 /\ ruleimg[c] = 0) => noise_fill[c] = 0
        /\ (pc \in {"highelev", "filtered"} /\ noise[c] = 0 /\ ruleimg[c] = 0)
           => highelev[c] = 0

\* The filters are through; a 0 outside the rule polygons is still there
\* and a 0 inside them was filled.
C9_Witness ==
    /\ pc = "filtered"
    /\ \E c \in Cells(shape) :
          /\ becinit[c] = 0
          /\ ruleimg[c] = 0
          /\ noise[c] = 0
          /\ highelev[c] = 0
    /\ \E c \in Cells(shape) :
          /\ becinit[c] = 0
          /\ noise[c] = 0
          /\ ruleimg[c] # 0
          /\ noise_fill[c] # 0

\* The codes of a zone, with the order of the types this process uses.
DissolveOf(key) ==
    high_elevation_dissolves(high_elevation_merges(elevation, becvalue_lookup, rulepolys),
                             hash_order, key)

\* The holes of the parkland mask, in the grid the high elevation filter
\* starts from, that hold alpine codes only and lie in rule polygons.
AlpineHoles ==
    { K \in Components({c \in Cells(shape) : noise_fill[c] \notin DissolveOf("parkland")},
                       config.cell_connectivity) :
        \A c \in K : noise_fill[c] \in DissolveOf("alpine") /\ ruleimg[c] # 0 }

\* The target of the alpine merge rule of the cell's rule polygon.
ParklandCodeAt(c) ==
    LET merges == high_elevation_merges(elevation, becvalue_lookup, rulepolys)
    IN  merges[LastMerge(merges, "alpine", ruleimg[c])].becvalue_target

\* C7: when the high elevation filter is through, every alpine patch that
\* was a hole of the parkland mask of threshold - 1 cells holds the parkland
\* code of its rule polygon in all its cells, and every such patch of
\* threshold + 1 cells is as it was.
C7_ThresholdBoundary ==
    pc = "filtered" =>
        \A K \in AlpineHoles :
            /\ Cardinality(K) = high_elevation_removal_threshold(config) - 1
               => \A c \in K : highelev[c] = ParklandCodeAt(c)
            /\ Cardinality(K) = high_elevation_removal_threshold(config) + 1
               => \A c \in K : highelev[c] = noise_fill[c]

(***************************************************************************)
(* Properties of the validation of the tables and of the configuration     *)
(***************************************************************************)
\* C11: when the polygon numbers of the elevation table and of the rule
\* polygons are not the same set, the validation of the tables ends the run
\* with DataValueError, and nothing is ever derived from the tables.
C11_PolygonIds ==
    Range(rulepolys) # PolygonNumbers
    => /\ pc \in {"read", "failed"}
       /\ pc = "failed" => err = DataValueError
       /\ NothingDerived

\* Tables whose bands pass the tests and whose polygon numbers differ were
\* validated and rejected.
C11_Witness ==
    /\ pc = "failed"
    /\ err = DataValueError
    /\ Range(rulepolys) # PolygonNumbers
    /\ ~validate_data_raises_on_bands(elevation, rulepolys)
    /\ NothingDerived

\* A cell size that validate_config is to reject.
InvalidCellSize(cfg) ==
    ~(\E k \in 5..20 : cfg.cell_size_metres = 5 * k)

C13_ConnectivityConsistency ==
    /\ err # ValueError
    /\ pc \in {"noise", "noise_fill", "highelev", "filtered", "vectorized"}
       => /\ ~shapes_raises(shapes_connectivity(config))
          /\ skimage_neighbours(config.cell_connectivity) = shapes_connectivity(config)

\* box a contains box b
Contains(a, b) == a[1] <= b[1] /\ a[2] <= b[2] /\ a[3] >= b[3] /\ a[4] >= b[4]

\* C14: the aligned bounds contain the expanded bounds of the rule polygons,
\* and each of their four coordinates is congruent to 87.5 m modulo 100 m.
C14_BoundsAlignment ==
    pc = "loaded"
    => /\ Contains(bounds, expanded_bounds(config, total_bounds))
       /\ \A i \in 1..4 : bounds[i] % 1000 = 875

\* The same for bounds whose lower left corner has no negative coordinate.
AlignedWhereNotNegative ==
    /\ pc = "loaded" => \A i \in 1..4 : bounds[i] % 1000 = 875
    /\ pc = "loaded" /\ (\A i \in 1..2 : expanded_bounds(config, total_bounds)[i] >= 0)
       => Contains(bounds, expanded_bounds(config, total_bounds))

\* Iteration a is made no later than iteration b: rows in table order, then
\* the four transitions, then the steps in increasing order.
NoLater(a, b) ==
    \/ a.row < b.row
    \/ a.row = b.row /\ a.transition < b.transition
    \/ a.row = b.row /\ a.transition = b.transition /\ a.step <= b.step

\* The iterations up to the iteration upto whose masks hold the cell.
MaskingUpTo(c, upto) ==
    {it \in AllIterations : NoLater(it, upto) /\ IterMask(it, c)}

\* The code of the last of these iterations, 0 when there is none.
LastCode(c, upto) ==
    LET S == MaskingUpTo(c, upto)
        last == CHOOSE m \in S : \A x \in S : NoLater(x, m)
    IN  IF S = {} THEN 0 ELSE becvalue_lookup[elevation[last.row].beclabel]

\* C15: during and after model() every cell holds the code of the last
\* assignment, in the order rows, transitions, steps, made so far whose mask
\* holds it, and 0 when there is none; model() ends after the last
\* iteration of that order.
C15_LastWriteWins ==
    (pc \in {"model", "modelled"} /\ pos # NoIteration)
    => /\ \A c \in Cells(shape) : becinit[c] = LastCode(c, pos)
       /\ pc = "modelled" => \A it \in AllIterations : NoLater(it, pos)

\* model() is through and a cell in the masks of both rows holds the code
\* of the second row.
C15_Witness ==
    /\ pc = "modelled"
    /\ \E c \in Cells(shape) :
          /\ {it.row : it \in MaskingUpTo(c, pos)} = {1, 2}
          /\ becinit[c] = becvalue_lookup[elevation[2].beclabel]
          /\ becinit[c] # becvalue_lookup[elevation[1].beclabel]

\* v lies in the closed interval between a and b, whichever is the larger.
Between(v, a, b) == Min(a, b) <= v /\ v <= Max(a, b)

\* off is an integer nearest to num / den, den > 0.
NearestInteger(off, num, den) ==
    /\ 2 * (off * den - num) <= den
    /\ 2 * (num - off * den) <= den

\* The bound used at step s of a transition of span d from start to end is
\* start plus the interpolated part rounded to a nearest integer, is start
\* at s = 0 and lies between start and end.
Interpolated(bound, start, end, s, d) ==
    /\ NearestInteger(bound - start, s * (end - start), d)
    /\ s = 0 => bound = start
    /\ Between(bound, start, end)

\* C16: at every iteration of model() the low and the high elevation bound
\* of the masks are the start values plus round(s * (end - start) / d_i),
\* equal the start values at s = 0 and lie in the closed intervals between
\* the start and the end values of the transition.
C16_BandInterpolation ==
    (pc \in {"model", "modelled"} /\ pos # NoIteration)
    => LET row == elevation[pos.row]
           t == transitions(row)[pos.transition]
           d == aspect_zone_differences(config)[pos.transition]
       IN  /\ pos.step \in 0..(d - 1)
           /\ pos.step % 10 = 0
           /\ Interpolated(elev_min(config, row, pos.transition, pos.step),
                           t[1][1], t[2][1], pos.step, d)
           /\ Interpolated(elev_max(config, row, pos.transition, pos.step),
                           t[1][2], t[2][2], pos.step, d)

\* An iteration past the first step of a transition whose span is no
\* multiple of 10, with a high bound strictly between its start and its end
\* value.
C16_Witness ==
    /\ pc = "model"
    /\ pos # NoIteration
    /\ pos.step > 0
    /\ aspect_zone_differences(config)[pos.transition] % 10 # 0
    /\ LET row == elevation[pos.row]
           t == transitions(row)[pos.transition]
           hi == elev_max(config, row, pos.transition, pos.step)
       IN  /\ hi # t[1][2]
           /\ hi # t[2][2]
           /\ Between(hi, t[1][2], t[2][2])

\* The labels of tier type among the rows of the polygon.
TierLabels(poly, type) ==
    IF type = "alpine" THEN Range(alpine_of(elevation, poly))
    ELSE IF type = "parkland" THEN Range(parkland_of(elevation, poly))
    ELSE Range(woodland_of(elevation, poly))

\* The rules of the polygon: one of type T if and only if a label of tier T
\* occurs in its rows and never two; the parkland rule targets a woodland
\* code of the polygon if it has one and a base code otherwise, the woodland
\* rule a base code.
MergeLinks(poly) ==
    LET rs == RulesOf(poly)
        Of(type) == {k \in DOMAIN rs : rs[k].type = type}
    IN  /\ \A type \in {"alpine", "parkland", "woodland"} :
              /\ Cardinality(Of(type)) <= 1
              /\ Of(type) # {} <=> TierLabels(poly, type) # {}
        /\ \A k \in Of("parkland") :
              IF TierLabels(poly, "woodland") # {}
              THEN rs[k].becvalue_target
                       \in {becvalue_lookup[l] : l \in TierLabels(poly, "woodland")}
              ELSE rs[k].becvalue_target \in BaseCodes(poly)
        /\ \A k \in Of("woodland") : rs[k].becvalue_target \in BaseCodes(poly)

\* C17: high_elevation_merges does not fail, and for every rule polygon it
\* holds a rule of type T if and only if a label of tier T occurs in the
\* rows of the polygon, at most one per type, the parkland rule targeting
\* the woodland code of the polygon if there is one and its base code
\* otherwise, the woodland rule targeting the base code.
C17_MergeLinks ==
    Loaded =>
        /\ ~high_elevation_merges_raises(elevation, rulepolys)
        /\ \A poly \in Range(rulepolys) : MergeLinks(poly)

\* No label of the table is an alpine label with the seventh character of a
\* parkland or of a woodland label, or the base label of such a label.
NoAlpineParkland ==
    \A i \in DOMAIN elevation :
        LET chars == Chars(elevation[i].beclabel)
        IN  Strip(Slice(chars, 0, 4)) \in high_elevation_removal_threshold_alpine
            => /\ Strip(Slice(chars, 6, 7)) = << >>
               /\ \A j \in DOMAIN elevation :
                     Slice(Chars(elevation[j].beclabel), 0, 6) # Slice(chars, 0, 6)
                        \/ j = i \/ elevation[j].beclabel = elevation[i].beclabel

\* The same wherever the property does not fail and the tiers of the labels
\* are exclusive.
MergeLinksUnlessRaised ==
    (Loaded /\ ~high_elevation_merges_raises(elevation, rulepolys) /\ NoAlpineParkland)
    => \A poly \in Range(rulepolys) : MergeLinks(poly)

\* The codes the rules of a type merge, over all rule polygons.
SourceCodes(type) ==
    LET merges == high_elevation_merges(elevation, becvalue_lookup, rulepolys)
    IN  {merges[k].becvalue : k \in {j \in DOMAIN merges : merges[j].type = type}}

\* The codes of the rules that merge into a base label: the targets of
\* every woodland rule and of every parkland rule of a polygon without a
\* woodland label.
BaseTargets ==
    LET merges == high_elevation_merges(elevation, becvalue_lookup, rulepolys)
    IN  { merges[k].becvalue_target : k \in
            { j \in DOMAIN merges :
                \/ merges[j].type = "woodland"
                \/ /\ merges[j].type = "parkland"
                   /\ TierLabels(merges[j].rule, "woodland") = {} } }

\* high_elevation_dissolves[key] whatever the order of the types.
Dissolved(order, key) ==
    high_elevation_dissolves(high_elevation_merges(elevation, becvalue_lookup, rulepolys),
                             order, key)

\* C18: where high_elevation_merges does not fail, high_elevation_dissolves
\* maps alpine, parkland and woodland to the source codes of the rules of
\* the type over all rule polygons, and 'high' to the target codes of the
\* rules that merge into a base label.
C18_DissolveGroups ==
    (Loaded /\ ~high_elevation_merges_raises(elevation, rulepolys))
    => \A order \in TypeOrders :
          /\ \A type \in {"alpine", "parkland", "woodland"} :
                Dissolved(order, type) = SourceCodes(type)
          /\ Dissolved(order, "high") = BaseTargets

\* The same but for 'high' when a woodland rule exists: it then holds the
\* targets of the woodland rules only.
DissolveGroupsAsCoded ==
    (Loaded /\ ~high_elevation_merges_raises(elevation, rulepolys))
    => \A order \in TypeOrders :
          /\ \A type \in {"alpine", "parkland", "woodland"} :
                Dissolved(order, type) = SourceCodes(type)
          /\ SourceCodes("woodland") = {} => Dissolved(order, "high") = BaseTargets
          /\ SourceCodes("woodland") # {}
                => Dissolved(order, "high") \subseteq BaseTargets

(***************************************************************************)
(* Properties of the high elevation filter                                 *)
(***************************************************************************)
\* The types of the merge rules in the order alpine, parkland, woodland.
TiersPresent ==
    high_elevation_types(high_elevation_merges(elevation, becvalue_lookup, rulepolys),
                         <<"alpine", "parkland", "woodland">>)

\* The keys over which the filter of this process loops, 'high' the last.
ProcessKeys ==
    dissolve_types(high_elevation_merges(elevation, becvalue_lookup, rulepolys), hash_order)

\* C19: the high elevation filter processes the tiers present in the order
\* alpine, parkland, woodland, each against the dissolve group of the next
\* of them in that order ('high' after the last), and never processes
\* 'high'.
C19_TierOrder ==
    pc \in {"highelev", "filtered"}
    => /\ ProcessKeys = TiersPresent \o <<"high">>
       /\ tier <= Len(TiersPresent)
       /\ tier >= 1 => ProcessKeys[tier] # "high"

\* The same but for the order: the tiers are processed in whatever order
\* the process iterates the set of their names.
TiersInProcessOrder ==
    pc \in {"highelev", "filtered"}
    => /\ Range(ProcessKeys) = Range(TiersPresent) \cup {"high"}
       /\ Len(ProcessKeys) = Len(TiersPresent) + 1
       /\ ProcessKeys[Len(ProcessKeys)] = "high"
       /\ tier <= Len(TiersPresent)
       /\ tier >= 1 => ProcessKeys[tier] # "high"
       /\ hash_order = <<"alpine", "parkland", "woodland">>
             => ProcessKeys = TiersPresent \o <<"high">>

\* The key that follows key in keys.
KeyAfter(keys, key) ==
    keys[(CHOOSE k \in DOMAIN keys : keys[k] = key) + 1]

\* The cells of the holes, smaller than the threshold, of the dissolved mask
\* of key in the grid the filter had before its latest step.
SmallHoles(key) ==
    LET X == {c \in Cells(shape) : prev_highelev[c] \in DissolveOf(key)}
    IN  remove_small_holes(shape, X, high_elevation_removal_threshold(config),
                           config.cell_connectivity) \ X

\* The latest step, of tier type, changed a cell only in the small holes of
\* the mask of key and to the target of the merge rule of type of the
\* cell's rule polygon.
WrittenBack(type, key) ==
    LET merges == high_elevation_merges(elevation, becvalue_lookup, rulepolys)
    IN  \A c \in Cells(shape) :
            highelev[c] # prev_highelev[c]
            => /\ c \in SmallHoles(key)
               /\ prev_highelev[c] \notin DissolveOf(key)
               /\ LastMerge(merges, type, ruleimg[c]) # 0
               /\ highelev[c]
                     = merges[LastMerge(merges, type, ruleimg[c])].becvalue_target

\* C20: a step of the high elevation filter, processing tier T, changes a
\* cell only if it was outside the dissolved mask of the tier after T (in
\* the order alpine, parkland, woodland, 'high') and in a hole of that mask
\* smaller than the threshold, and only to the target of the merge rule of
\* type T of the cell's rule polygon.
C20_WriteBack ==
    (pc = "highelev" /\ tier >= 1)
    => WrittenBack(ProcessKeys[tier],
                   KeyAfter(TiersPresent \o <<"high">>, ProcessKeys[tier]))

\* The same with the mask of the key that follows T in the order of the
\* process.
WriteBackInProcessOrder ==
    (pc = "highelev" /\ tier >= 1)
    => WrittenBack(ProcessKeys[tier], ProcessKeys[tier + 1])

(***************************************************************************)
(* Properties of the stages of postfilter()                                *)
(***************************************************************************)
\* The tiers whose aggregate code is v.
TiersOfCode(v) ==
    {t \in {"alpine", "parkland", "woodland"} : high_elevation_aggregates(t) = v}

\* The source codes of the merge rules of type t of rule polygon poly.
RuleSources(poly, t) ==
    LET merges == high_elevation_merges(elevation, becvalue_lookup, rulepolys)
    IN  { merges[k].becvalue :
            k \in {j \in DOMAIN merges : merges[j].rule = poly /\ merges[j].type = t} }

\* C21: once the tiers are ungrouped, a cell of rule polygon P whose
\* majority value is the aggregate code of tier T holds the source code of
\* the merge rule of type T of P when P has one, and every other cell holds
\* its majority value.
C21_Ungrouping ==
    Ungrouped =>
        \A c \in Cells(shape) :
            LET sources == UNION {RuleSources(ruleimg[c], t) : t \in TiersOfCode(majority[c])}
            IN  IF sources # {}
                THEN postmajority[c] \in sources /\ Cardinality(sources) = 1
                ELSE postmajority[c] = majority[c]

\* The tiers are ungrouped: a cell of polygon 1 went from an aggregate code
\* to the source code of the polygon's rule, and a cell of polygon 2, which
\* has no rule, keeps the aggregate code the majority filter gave it.
C21_Witness ==
    /\ pc = "postmajority"
    /\ \E c \in Cells(shape) :
          /\ ruleimg[c] = 1
          /\ TiersOfCode(majority[c]) # {}
          /\ postmajority[c] # majority[c]
    /\ \E c \in Cells(shape) :
          /\ ruleimg[c] = 2
          /\ TiersOfCode(majority[c]) # {}
          /\ postmajority[c] = majority[c]

\* The noise filter is through.
NoiseFiltered == pc \in {"noise", "noise_fill", "highelev", "filtered", "vectorized"}

\* C22: once the noise filter is through, every maximal connected region of
\* cells of data["noise"] that share a non-zero code has at least
\* noise_threshold cells.
C22_NoiseRegions ==
    NoiseFiltered =>
        \A v \in {noise[c] : c \in Cells(shape)} \ {0} :
            \A K \in Components({c \in Cells(shape) : noise[c] = v},
                                config.cell_connectivity) :
                Cardinality(K) >= noise_threshold(config)

\* The cells that are not 0 after the noise filter.
NoiseCells == {c \in Cells(shape) : noise[c] # 0}

\* C23: the hole fill changes only the cells that are 0 after the noise
\* filter and lie inside the rule polygons, to the code of a nearest cell
\* that is not 0 after the noise filter; every other cell keeps its value,
\* and when the noise filter left a cell that is not 0, no cell inside the
\* rule polygons is 0 afterwards.
C23_HoleFill ==
    Filled =>
        \A c \in Cells(shape) :
            /\ IF noise[c] = 0 /\ ruleimg[c] # 0 /\ NoiseCells # {}
               THEN \E n \in NoiseCells :
                       /\ \A m \in NoiseCells : Dist2(c, n) <= Dist2(c, m)
                       /\ noise_fill[c] = noise[n]
               ELSE noise_fill[c] = noise[c]
            /\ (NoiseCells # {} /\ ruleimg[c] # 0) => noise_fill[c] # 0

\* The hole fill is through: a 0 inside the rule polygons took the code of
\* a nearest cell while a cell farther away held another code, and a 0
\* outside the rule polygons is still 0.
C23_Witness ==
    /\ pc = "noise_fill"
    /\ \E c \in Cells(shape) :
          /\ noise[c] = 0
          /\ ruleimg[c] # 0
          /\ noise_fill[c] # 0
          /\ \E m \in NoiseCells : noise[m] # noise_fill[c]
    /\ \E c \in Cells(shape) : noise[c] = 0 /\ ruleimg[c] = 0 /\ noise_fill[c] = 0

\* The cells the rasterizer assigned to a rule polygon.
Assigned == {c \in Cells(shape) : rules[c] # 0}

\* In ruleimg an assigned cell holds its polygon's id; an unassigned cell
\* less than expand_bounds_cells away from the nearest assigned cell holds
\* the id of a nearest assigned cell; every other cell holds 0.
Expanded ==
    \A c \in Cells(shape) :
        IF rules[c] # 0 THEN ruleimg[c] = rules[c]
        ELSE IF \E n \in Assigned :
                   Dist2(c, n) < expand_bounds_cells(config) * expand_bounds_cells(config)
        THEN \E n \in Assigned :
                /\ \A m \in Assigned : Dist2(c, n) <= Dist2(c, m)
                /\ ruleimg[c] = rules[n]
        ELSE ruleimg[c] = 0

\* C24: after load(), with any expand_bounds_metres >= 0, ruleimg holds the
\* id of its polygon in every assigned cell, the id of the nearest assigned
\* cell in every unassigned cell less than ceil(expand_bounds_metres /
\* cell_size_metres) cells away from it, and 0 elsewhere.
C24_RuleExpansion == pc = "loaded" => Expanded

\* The same with an expansion above 0.
ExpandedWherePositive ==
    (pc = "loaded" /\ config.expand_bounds_metres > 0) => Expanded

\* C29: an update_config that raises ConfigValueError leaves the
\* configuration as it was before the call, so the configuration that
\* load(), model() and postfilter() see always passes validate_config.
C29_FailedUpdate ==
    [][(UpdateCellSize /\ err' = ConfigValueError) => config' = config]_vars

\* load() may start from a configuration that validate_config rejects.
LoadSeesValidConfig == ENABLED Load => ~validate_config_raises(config)

\* An update_config that does not raise leaves a configuration that
\* validate_config accepts.
AcceptedUpdateIsValid ==
    [][(UpdateCellSize /\ err' = "none") => ~validate_config_raises(config')]_vars

\* Row k matches the cell: the cell is in the mask of one of the assignments
\* made for the row.
RowMatches(k, c) == \E it \in AllIterations : it.row = k /\ IterMask(it, c)

\* C26: after model() a cell holds 0 exactly when no row of the elevation
\* table matches it; a cell that holds a code holds the code of a row of the
\* rule polygon of the cell; a cell of no rule polygon holds 0.
C26_OutputDomain ==
    pc = "modelled"
    => \A c \in Cells(shape) :
          /\ becinit[c] = 0 <=> \A k \in DOMAIN elevation : ~RowMatches(k, c)
          /\ becinit[c] # 0
                => \E k \in DOMAIN elevation :
                      /\ elevation[k].polygon_number = ruleimg[c]
                      /\ becinit[c] = becvalue_lookup[elevation[k].beclabel]
          /\ ruleimg[c] = 0 => becinit[c] = 0

\* model() is through with a cell of no rule polygon, a cell of the rule
\* polygon above every band of its rows, both 0, and a cell that holds a
\* code.
C26_Witness ==
    /\ pc = "modelled"
    /\ \E c \in Cells(shape) : ruleimg[c] = 0 /\ becinit[c] = 0
    /\ \E c \in Cells(shape) : ruleimg[c] # 0 /\ becinit[c] = 0
    /\ \E c \in Cells(shape) : becinit[c] # 0

\* The grids that the noise filter, the hole fill and the high elevation
\* filter have produced so far.
FilteredGrids ==
    (IF NoiseFiltered THEN {noise} ELSE {})
        \cup (IF Filled \/ pc = "vectorized" THEN {noise_fill} ELSE {})
        \cup (IF pc \in {"highelev", "filtered", "vectorized"} THEN {highelev} ELSE {})

\* The aggregate codes of the three types.
AggregateCodes == {max_value + 1, max_value + 2, max_value + 3}

\* C27: every cell of the grids of the noise filter, of the hole fill and
\* of the high elevation filter holds 0 or a key of beclabel_lookup, never
\* an aggregate code, also where the majority filter spread an aggregate
\* code into a rule polygon without a merge rule for it.
C27_NoAggregateLeak ==
    \A grid \in FilteredGrids : \A c \in Cells(shape) :
        /\ grid[c] \in DOMAIN beclabel_lookup
        /\ grid[c] \notin AggregateCodes

\* The filters are through; a cell of postmajority holds an aggregate code
\* that the majority filter spread into rule polygon 2, and no key.
C27_Witness ==
    /\ pc = "filtered"
    /\ \E c \in Cells(shape) :
          /\ ruleimg[c] = 2
          /\ postmajority[c] \in AggregateCodes
          /\ postmajority[c] \notin DOMAIN beclabel_lookup
          /\ highelev[c] \in DOMAIN beclabel_lookup

Tiers == {"alpine", "parkland", "woodland", "high"}

\* The same for the tables without an alpine label that is, or is the base
\* label of, a parkland or a woodland label.
ExclusiveWithoutAlpineParkland ==
    (Loaded /\ ~high_elevation_merges_raises(elevation, rulepolys) /\ NoAlpineParkland)
    => \A order \in TypeOrders : \A a, b \in Tiers :
          a # b => Dissolved(order, a) \cap Dissolved(order, b) = {}

\* C28: for a validated table whose merge rules can be derived, no code is
\* in the dissolve groups of two of the tiers alpine, parkland, woodland and
\* high.
C28_TierExclusivity ==
    (Loaded /\ ~high_elevation_merges_raises(elevation, rulepolys))
    => \A order \in TypeOrders : \A a, b \in Tiers :
          a # b => Dissolved(order, a) \cap Dissolved(order, b) = {}

(***************************************************************************)
(* Properties of the workspace                                             *)
(***************************************************************************)
\* load(overwrite=False) on an object that is loaded already.
LoadAgain == pc = "loaded" /\ load(FALSE)

\* C25: with no DEM file configured, a second load(overwrite=False) with the
\* configuration and the workspace of a load() that completed asks for no
\* BC DEM and for no terrain tiles, within BC or beyond, and finds dem.tif.
C25_CacheIdempotence ==
    [][(LoadAgain /\ config.dem = "")
          => (requests' = requests /\ exists(wksp', "dem.tif"))]_vars

\* The same with bounds that reach beyond BC.
CacheKeptBeyondBC ==
    [][(LoadAgain /\ config.dem = "" /\ outside_bc)
          => (requests' = requests /\ exists(wksp', "dem.tif"))]_vars

\* dem.tif is there after the second load, and terrain tiles are never asked
\* for twice.
DemFoundAgain ==
    [][(LoadAgain /\ config.dem = "")
          => (Len(requests') <= Len(requests) + 1
              /\ (Len(requests') > Len(requests)
                    => requests'[Len(requests')] = "bcdata.get_dem")
              /\ exists(wksp', "dem.tif"))]_vars

\* C30: after update_config and load(overwrite=False) in any sequence, the
\* slope and the aspect in data are derived from the DEM that the latest
\* load() read into data["dem"].
C30_DerivedFromDem ==
    pc = "loaded"
    => /\ derived_from.slope = derived_from.dem
       /\ derived_from.aspect = derived_from.dem

\* The first load() of an object, on an empty workspace, derives the slope
\* and the aspect from the DEM it reads.
DerivedFromDemAtFirstLoad ==
    [][(Load /\ pc' = "loaded")
          => (derived_from'.slope = derived_from'.dem
              /\ derived_from'.aspect = derived_from'.dem)]_vars

====
